---- MODULE Spec2Model ----
(***************************************************************************)
(* Model of the makcu-cpp Session (makcu::Device / Device::Impl), its      *)
(* Channel (makcu::SerialPort, Win32 build) and its button monitoring      *)
(* thread.  Foreground threads call Device::connect and Device::disconnect *)
(* concurrently; every statement that reads or writes a field another      *)
(* thread can see is one step.                                             *)
(***************************************************************************)
EXTENDS Integers, Sequences, FiniteSets, TLC

VARIABLES
    status,       \* Impl::status
    connected,    \* Impl::connected (atomic)
    monitoring,   \* Impl::monitoring (atomic)
    deviceInfo,   \* Impl::deviceInfo
    serial,       \* Impl::serialPort : m_isOpen, m_portName, m_baudRate, open OS handles
    mutex,        \* Impl::mutex : the thread holding it, or NoThread
    monThread,    \* Impl::monitorThread : "none" (not joinable), "running", "finished" (joinable)
    hasCallback,  \* Impl::mouseButtonCallback is non-empty
    aborted,      \* std::terminate was called
    mpc,          \* position of the monitoring thread
    lastValue,    \* monitoringLoop: lastValue
    curByte,      \* monitoringLoop: byte
    bit,          \* processButtonData: bit
    pc,           \* position of each foreground thread
    hint,         \* connect: port
    target,       \* connect: targetPort
    savedPort,    \* switchToHighSpeedMode: portName
    ret,          \* value the running call returns
    oplog,        \* Channel operations the running call has performed
    failed,       \* the step of the running connect that failed
    lastDone,     \* the call that returned last
    stopSamples,  \* samples taken by the loop since monitoring was cleared
    stopSleeps,   \* sleeps of the loop since monitoring was cleared
    prevValue,    \* lastValue as it was when the byte of this iteration was read
    cbLog,        \* callback invocations of this iteration: <<button, pressed>>
    chanLock,     \* SerialPort::m_mutex : the thread inside a Channel method
    cmd,          \* the command method each thread is running
    reply,        \* bytes returned by the response read of the running query
    wire,         \* commands written to the open Channel: <<thread, number>>
    issued,       \* number of command calls started so far
    chanRes,      \* the last SerialPort method called directly and its result
    m_actions,          \* MacroRecorder::m_actions
    m_recording,        \* MacroRecorder::m_recording
    m_playing,          \* MacroRecorder::m_playing
    m_stopPlayback,     \* MacroRecorder::m_stopPlayback (atomic)
    m_useTimestamps,    \* MacroRecorder::m_useTimestamps
    m_minimumDelay,     \* MacroRecorder::m_minimumDelay
    elapsed,            \* steady_clock::now() - m_recordingStart
    worker,             \* m_playbackThread : "none", "running", "finished"
    ppc,                \* position of each thread inside MacroRecorder::playback
    repeatCount,        \* playback: repeatCount
    rep,                \* playback: rep
    idx,                \* playback: position of the range-for in m_actions
    previousTimestamp,  \* playback: previousTimestamp
    pret,               \* value the last playback / playbackAsync call returned
    executed,           \* sleeps and executions of the running playback
    stopReq,            \* stopPlayback set the flag during the running playback
    mutated,            \* m_actions was changed during the running playback
    m_recordMouseMovement,  \* MacroRecorder::m_recordMouseMovement
    file,               \* the macro file on disk: its lines, or NoFile
    recRes,             \* the last recording / file method called and its result
    trip,               \* progress of a save, load, save sequence on one file
    afterStop,          \* actions a playback started after stopPlayback set the flag
    hres,               \* the last humanizeDelay call: arguments, offset drawn, result
    cbCall,             \* Device::disconnect called by the button handler: its progress
    rx,                 \* bytes the device has sent that no read has taken yet
    stolen              \* reply bytes of a query taken by the polling loop

sessVars == <<status, connected, monitoring, deviceInfo, serial, monThread>>
monVars == <<mpc, lastValue, curByte, bit, prevValue, cbLog>>
locVars == <<hint, target, savedPort, ret, oplog, failed>>
ghostVars == <<lastDone, stopSamples, stopSleeps>>
cmdVars == <<cmd, reply, wire, issued>>
recVars == <<m_actions, m_recording, m_playing, m_stopPlayback, m_useTimestamps,
             m_minimumDelay, elapsed, worker>>
playVars == <<ppc, repeatCount, rep, idx, previousTimestamp, pret, executed,
              stopReq, mutated>>
macroVars == <<recVars, playVars>>
fileVars == <<m_recordMouseMovement, file, recRes, trip>>
rxVars == <<rx, stolen>>
auxBase == <<cmdVars, chanRes, macroVars, fileVars, afterStop, hres, cbCall>>
auxVars == <<auxBase, rxVars>>
devVars == <<sessVars, monVars, locVars, ghostVars, mutex, hasCallback, pc>>
vars == <<status, connected, monitoring, deviceInfo, serial, mutex, monThread,
          hasCallback, aborted, mpc, lastValue, curByte, bit, pc, hint, target,
          savedPort, ret, oplog, failed, lastDone, stopSamples, stopSleeps,
          prevValue, cbLog, chanLock, cmd, reply, wire, issued, chanRes,
          m_actions, m_recording, m_playing, m_stopPlayback, m_useTimestamps,
          m_minimumDelay, elapsed, worker, ppc, repeatCount, rep, idx,
          previousTimestamp, pret, executed, stopReq, mutated,
          m_recordMouseMovement, file, recRes, trip, afterStop, hres, cbCall,
          rx, stolen>>

\* ---------------------------------------------------------------- bounds
MaxByte == 2

\* ------------------------------------------------------------- constants
INITIAL_BAUD_RATE == 115200
HIGH_SPEED_BAUD_RATE == 4000000
MAKCU_VID == 6790
MAKCU_PID == 21971
TARGET_DESC == "USB-Enhanced-SERIAL CH343"
BAUD_CHANGE_COMMAND == <<222, 173, 5, 0, 165, 0, 9, 61, 0>>
\* "km.buttons(1)\r" as the bytes SerialPort::write(const std::string&) sends
INIT_COMMAND == <<107, 109, 46, 98, 117, 116, 116, 111, 110, 115, 40, 49, 41, 13>>
\* MacroRecorder() : m_minimumDelay(10), in milliseconds
DEFAULT_MINIMUM_DELAY == 10

Threads == {"t1", "t2"}
NoThread == "nobody"
Ports == {"COM3", "COM4"}
NoPort == ""
Unset == "unset"
Uninit == -1
NoByte == -1
Bytes == 0..MaxByte
MonThread == "mon"
NoCmd == [kind |-> "none", n |-> 0]
NoRes == [op |-> "none", wasOpen |-> FALSE, arg |-> 0, ok |-> FALSE,
          data |-> <<>>, count |-> 0, call |-> 0]
\* no file of that name can be opened (std::ifstream::is_open() is false)
NoFile == [exists |-> FALSE, lines |-> <<>>]
NoRecRes == [op |-> "none", ok |-> FALSE, call |-> 0]
NoTrip == [stage |-> 0, first |-> NoFile, list |-> <<>>]
\* nothing received, no query answered
NoRx == [queue |-> <<>>, answered |-> 0]
NoHres == [baseDelay |-> 0, variance |-> 0, randomOffset |-> 0,
           result |-> <<0, 0>>, call |-> 0]
\* the thread that calls the MacroRecorder, and the playbackAsync worker
Caller == "t1"
Worker == "w"
Players == {Caller, Worker}

\* ------------------------------------------------------------- SerialPort
\* SerialPort::open on a closed port; ok is the outcome of CreateFileA and
\* configurePort
SP_Open(s, port, baud, ok) ==
    IF ok
    THEN [s EXCEPT !.portName = port, !.baudRate = baud, !.isOpen = TRUE,
                   !.handles = @ + 1]
    ELSE [s EXCEPT !.portName = port, !.baudRate = baud]

SP_Close(s) ==
    IF ~s.isOpen THEN s
    ELSE [s EXCEPT !.isOpen = FALSE, !.handles = @ - 1]

\* mutant: write hands the data to WriteFile without looking at m_isOpen
SP_Write_NoOpenCheck(s, data, ok) == data # <<>> /\ ok

\* SerialPort::write : ok is the outcome of WriteFile
SP_Write(s, data, ok) == s.isOpen /\ data # <<>> /\ ok

\* SerialPort::flush : ok is the outcome of FlushFileBuffers
SP_Flush(s, ok) == s.isOpen /\ ok

\* SerialPort::read : incoming is what ReadFile finds in the driver's buffer
SP_Read(s, maxBytes, incoming) ==
    IF ~s.isOpen \/ maxBytes = 0 THEN <<>>
    ELSE SubSeq(incoming, 1, IF Len(incoming) < maxBytes THEN Len(incoming)
                             ELSE maxBytes)

\* SerialPort::available : queued is cbInQue reported by ClearCommError
SP_Available(s, queued) == IF ~s.isOpen THEN 0 ELSE queued

OpOpen(port, baud) == [op |-> "open", port |-> port, baud |-> baud, data |-> <<>>]
OpClose == [op |-> "close", port |-> NoPort, baud |-> 0, data |-> <<>>]
OpWrite(data) == [op |-> "write", port |-> NoPort, baud |-> 0, data |-> data]
OpFlush == [op |-> "flush", port |-> NoPort, baud |-> 0, data |-> <<>>]

\* ---------------------------------------------------------------- helpers
Goto(t, l) == pc' = [pc EXCEPT ![t] = l]
Log(t, e) == oplog' = [oplog EXCEPT ![t] = Append(@, e)]
Fail(t, step) == failed' = [failed EXCEPT ![t] = step]
Return(t, v) == ret' = [ret EXCEPT ![t] = v]
BitOf(b, i) == (b \div (2 ^ i)) % 2 = 1
Bump(n) == IF n < 2 THEN n + 1 ELSE n

Init ==
    /\ status = "DISCONNECTED"
    /\ connected = FALSE
    /\ monitoring = FALSE
    /\ deviceInfo = [port |-> NoPort, description |-> "", vid |-> Uninit,
                     pid |-> Uninit, isConnected |-> FALSE]
    /\ serial = [isOpen |-> FALSE, portName |-> NoPort,
                 baudRate |-> INITIAL_BAUD_RATE, handles |-> 0]
    /\ mutex = NoThread
    /\ monThread = "none"
    /\ hasCallback = FALSE
    /\ aborted = FALSE
    /\ mpc = "off"
    /\ lastValue = 0
    /\ curByte = NoByte
    /\ bit = 0
    /\ prevValue = 0
    /\ cbLog = <<>>
    /\ chanLock = NoThread
    /\ cmd = [t \in Threads |-> NoCmd]
    /\ reply = [t \in Threads |-> <<>>]
    /\ wire = <<>>
    /\ issued = 0
    /\ chanRes = NoRes
    /\ m_actions = <<>>
    /\ m_recording = FALSE
    /\ m_playing = FALSE
    /\ m_stopPlayback = FALSE
    /\ m_useTimestamps = TRUE
    /\ m_minimumDelay = DEFAULT_MINIMUM_DELAY
    /\ elapsed = 0
    /\ worker = "none"
    /\ ppc = [t \in Players |-> "idle"]
    /\ repeatCount = [t \in Players |-> 0]
    /\ rep = [t \in Players |-> 0]
    /\ idx = [t \in Players |-> 0]
    /\ previousTimestamp = [t \in Players |-> 0]
    /\ pret = [t \in Players |-> FALSE]
    /\ executed = [t \in Players |-> <<>>]
    /\ stopReq = [t \in Players |-> FALSE]
    /\ mutated = [t \in Players |-> FALSE]
    /\ m_recordMouseMovement = FALSE
    /\ file = NoFile
    /\ recRes = NoRecRes
    /\ trip = NoTrip
    /\ afterStop = [t \in Players |-> 0]
    /\ hres = NoHres
    /\ cbCall = "none"
    /\ rx = NoRx
    /\ stolen = 0
    /\ pc = [t \in Threads |-> "idle"]
    /\ hint = [t \in Threads |-> NoPort]
    /\ target = [t \in Threads |-> Unset]
    /\ savedPort = [t \in Threads |-> NoPort]
    /\ ret = [t \in Threads |-> FALSE]
    /\ oplog = [t \in Threads |-> <<>>]
    /\ failed = [t \in Threads |-> "none"]
    /\ lastDone = "none"
    /\ stopSamples = 0
    /\ stopSleeps = 0

\* A call starts: the locals of the thread are fresh
Enter(t, l, p) ==
    /\ pc[t] = "idle"
    /\ ~aborted
    /\ Goto(t, l)
    /\ hint' = [hint EXCEPT ![t] = p]
    /\ target' = [target EXCEPT ![t] = Unset]
    /\ savedPort' = [savedPort EXCEPT ![t] = NoPort]
    /\ ret' = [ret EXCEPT ![t] = FALSE]
    /\ oplog' = [oplog EXCEPT ![t] = <<>>]
    /\ failed' = [failed EXCEPT ![t] = "none"]

\* std::lock_guard<std::mutex> lock(m_impl->mutex)
Lock(t, from, to) ==
    /\ pc[t] = from
    /\ ~aborted
    /\ mutex = NoThread
    /\ mutex' = t
    /\ Goto(t, to)

\* the call returns: the lock_guard releases the mutex
Leave(t, from, done) ==
    /\ pc[t] = from
    /\ ~aborted
    /\ mutex' = NoThread
    /\ Goto(t, "idle")
    /\ lastDone' = done
    /\ hint' = [hint EXCEPT ![t] = NoPort]
    /\ target' = [target EXCEPT ![t] = Unset]
    /\ savedPort' = [savedPort EXCEPT ![t] = NoPort]
    /\ ret' = [ret EXCEPT ![t] = FALSE]
    /\ oplog' = [oplog EXCEPT ![t] = <<>>]
    /\ failed' = [failed EXCEPT ![t] = "none"]

At(t, l) == pc[t] = l /\ ~aborted

\* ------------------------------------------------------- Device::connect
ConnectCall(t) ==
    /\ \E p \in Ports \cup {NoPort} : Enter(t, "c_lock", p)
    /\ UNCHANGED <<sessVars, monVars, ghostVars, mutex, hasCallback, aborted, chanLock, auxVars>>

\* mutant: connect runs its body without taking the Session mutex
ConnectLock_NoLock(t) ==
    /\ At(t, "c_lock")
    /\ Goto(t, "c_check")
    /\ UNCHANGED <<sessVars, monVars, locVars, ghostVars, mutex, hasCallback,
                   aborted, chanLock, auxVars>>

ConnectLock(t) ==
    /\ Lock(t, "c_lock", "c_check")
    /\ UNCHANGED <<sessVars, monVars, locVars, ghostVars, hasCallback, aborted, chanLock, auxVars>>

\* mutant: connect without the already-connected early return
ConnectCheck_NoEarlyReturn(t) ==
    /\ At(t, "c_check")
    /\ Goto(t, "c_resolve")
    /\ UNCHANGED <<sessVars, monVars, ghostVars, mutex, hasCallback, aborted, chanLock, auxVars,
                   locVars>>

\* if (m_impl->connected) return true;
ConnectCheck(t) ==
    /\ At(t, "c_check")
    /\ IF connected
       THEN Return(t, TRUE) /\ Goto(t, "c_ret")
       ELSE UNCHANGED ret /\ Goto(t, "c_resolve")
    /\ UNCHANGED <<sessVars, monVars, ghostVars, mutex, hasCallback, aborted, chanLock, auxVars,
                   hint, target, savedPort, oplog, failed>>

\* mutant: connect goes on with an empty target port
ConnectResolve_NoEmptyCheck(t) ==
    /\ At(t, "c_resolve")
    /\ \E found \in Ports \cup {NoPort} :
         target' = [target EXCEPT ![t] = IF hint[t] = NoPort THEN found ELSE hint[t]]
    /\ status' = "CONNECTING"
    /\ Goto(t, "c_open")
    /\ UNCHANGED <<connected, monitoring, deviceInfo, serial, monThread, monVars,
                   ghostVars, mutex, hasCallback, aborted, chanLock, auxVars, hint, savedPort,
                   ret, oplog, failed>>

\* targetPort = port, or findFirstDevice(); status = CONNECTING
ConnectResolve(t) ==
    /\ At(t, "c_resolve")
    /\ \E found \in Ports \cup {NoPort} :
         LET tp == IF hint[t] = NoPort THEN found ELSE hint[t] IN
         /\ target' = [target EXCEPT ![t] = tp]
         /\ IF tp = NoPort
            THEN /\ status' = "CONNECTION_ERROR"
                 /\ Return(t, FALSE)
                 /\ Goto(t, "c_ret")
            ELSE /\ status' = "CONNECTING"
                 /\ UNCHANGED ret
                 /\ Goto(t, "c_open")
    /\ UNCHANGED <<connected, monitoring, deviceInfo, serial, monThread, monVars,
                   ghostVars, mutex, hasCallback, aborted, chanLock, auxVars, hint, savedPort,
                   oplog, failed>>

\* serialPort->open(targetPort, INITIAL_BAUD_RATE)
ConnectOpen(t) ==
    /\ At(t, "c_open")
    /\ chanLock = NoThread
    /\ IF serial.isOpen
       THEN \* SerialPort::open calls close() while holding m_mutex
            /\ Goto(t, "open_stuck")
            /\ UNCHANGED <<serial, oplog, failed>>
       ELSE \E ok \in BOOLEAN :
              /\ serial' = SP_Open(serial, target[t], INITIAL_BAUD_RATE, ok)
              /\ Log(t, OpOpen(target[t], INITIAL_BAUD_RATE))
              /\ IF ok
                 THEN Goto(t, "hs_write") /\ UNCHANGED failed
                 ELSE Goto(t, "c_fail_status") /\ Fail(t, "open1")
    /\ UNCHANGED <<status, connected, monitoring, deviceInfo, monThread, monVars,
                   ghostVars, mutex, hasCallback, aborted, chanLock, auxVars, hint, target,
                   savedPort, ret>>

\* switchToHighSpeedMode: isOpen check, write(BAUD_CHANGE_COMMAND)
HsWrite(t) ==
    /\ At(t, "hs_write")
    /\ chanLock = NoThread
    /\ IF ~serial.isOpen
       THEN Goto(t, "c_fail_close") /\ Fail(t, "notopen") /\ UNCHANGED oplog
       ELSE \E ok \in BOOLEAN :
              /\ Log(t, OpWrite(BAUD_CHANGE_COMMAND))
              /\ IF SP_Write(serial, BAUD_CHANGE_COMMAND, ok)
                 THEN Goto(t, "hs_flush") /\ UNCHANGED failed
                 ELSE Goto(t, "c_fail_close") /\ Fail(t, "write1")
    /\ UNCHANGED <<sessVars, monVars, ghostVars, mutex, hasCallback, aborted, chanLock, auxVars,
                   hint, target, savedPort, ret>>

\* switchToHighSpeedMode: flush()
HsFlush(t) ==
    /\ At(t, "hs_flush")
    /\ chanLock = NoThread
    /\ \E ok \in BOOLEAN :
         /\ Log(t, OpFlush)
         /\ IF SP_Flush(serial, ok)
            THEN Goto(t, "hs_close") /\ UNCHANGED failed
            ELSE Goto(t, "c_fail_close") /\ Fail(t, "flush1")
    /\ UNCHANGED <<sessVars, monVars, ghostVars, mutex, hasCallback, aborted, chanLock, auxVars,
                   hint, target, savedPort, ret>>

\* mutant: switchToHighSpeedMode reopens without closing first
HsClose_NoClose(t) ==
    /\ At(t, "hs_close")
    /\ savedPort' = [savedPort EXCEPT ![t] = serial.portName]
    /\ Goto(t, "hs_reopen")
    /\ UNCHANGED <<sessVars, monVars, ghostVars, mutex, hasCallback, aborted, chanLock, auxVars,
                   hint, target, ret, oplog, failed>>

\* switchToHighSpeedMode: portName = getPortName(); close()
HsClose(t) ==
    /\ At(t, "hs_close")
    /\ chanLock = NoThread
    /\ savedPort' = [savedPort EXCEPT ![t] = serial.portName]
    /\ serial' = SP_Close(serial)
    /\ Log(t, OpClose)
    /\ Goto(t, "hs_reopen")
    /\ UNCHANGED <<status, connected, monitoring, deviceInfo, monThread, monVars,
                   ghostVars, mutex, hasCallback, aborted, chanLock, auxVars, hint, target, ret,
                   failed>>

\* switchToHighSpeedMode: open(portName, HIGH_SPEED_BAUD_RATE)
HsReopen(t) ==
    /\ At(t, "hs_reopen")
    /\ chanLock = NoThread
    /\ IF serial.isOpen
       THEN \* SerialPort::open calls close() while holding m_mutex
            /\ Goto(t, "open_stuck")
            /\ UNCHANGED <<serial, oplog, failed>>
       ELSE \E ok \in BOOLEAN :
              /\ serial' = SP_Open(serial, savedPort[t], HIGH_SPEED_BAUD_RATE, ok)
              /\ Log(t, OpOpen(savedPort[t], HIGH_SPEED_BAUD_RATE))
              /\ IF ok
                 THEN Goto(t, "in_write") /\ UNCHANGED failed
                 ELSE Goto(t, "c_fail_close") /\ Fail(t, "open2")
    /\ UNCHANGED <<status, connected, monitoring, deviceInfo, monThread, monVars,
                   ghostVars, mutex, hasCallback, aborted, chanLock, auxVars, hint, target,
                   savedPort, ret>>

\* initializeDevice: isOpen check, write("km.buttons(1)\r")
InitWrite(t) ==
    /\ At(t, "in_write")
    /\ chanLock = NoThread
    /\ IF ~serial.isOpen
       THEN Goto(t, "c_fail_close") /\ Fail(t, "notopen") /\ UNCHANGED oplog
       ELSE \E ok \in BOOLEAN :
              /\ Log(t, OpWrite(INIT_COMMAND))
              /\ IF SP_Write(serial, INIT_COMMAND, ok)
                 THEN Goto(t, "in_flush") /\ UNCHANGED failed
                 ELSE Goto(t, "c_fail_close") /\ Fail(t, "write2")
    /\ UNCHANGED <<sessVars, monVars, ghostVars, mutex, hasCallback, aborted, chanLock, auxVars,
                   hint, target, savedPort, ret>>

\* initializeDevice: flush()
InitFlush(t) ==
    /\ At(t, "in_flush")
    /\ chanLock = NoThread
    /\ \E ok \in BOOLEAN :
         /\ Log(t, OpFlush)
         /\ IF SP_Flush(serial, ok)
            THEN Goto(t, "c_info") /\ UNCHANGED failed
            ELSE Goto(t, "c_fail_close") /\ Fail(t, "flush2")
    /\ UNCHANGED <<sessVars, monVars, ghostVars, mutex, hasCallback, aborted, chanLock, auxVars,
                   hint, target, savedPort, ret>>

\* mutant: the failure branches of connect leave the Channel open
ConnectFailClose_NoClose(t) ==
    /\ At(t, "c_fail_close")
    /\ Goto(t, "c_fail_status")
    /\ UNCHANGED <<sessVars, monVars, ghostVars, mutex, hasCallback, aborted, chanLock, auxVars,
                   locVars>>

\* the failure branches of connect: serialPort->close()
ConnectFailClose(t) ==
    /\ At(t, "c_fail_close")
    /\ chanLock = NoThread
    /\ serial' = SP_Close(serial)
    /\ Log(t, OpClose)
    /\ Goto(t, "c_fail_status")
    /\ UNCHANGED <<status, connected, monitoring, deviceInfo, monThread, monVars,
                   ghostVars, mutex, hasCallback, aborted, chanLock, auxVars, hint, target,
                   savedPort, ret, failed>>

\* the failure branches of connect: status = CONNECTION_ERROR; return false
\* mutant: a failed connect resets status to DISCONNECTED
ConnectFailStatus_Disconnected(t) ==
    /\ At(t, "c_fail_status")
    /\ status' = "DISCONNECTED"
    /\ Return(t, FALSE)
    /\ Goto(t, "c_ret")
    /\ UNCHANGED <<connected, monitoring, deviceInfo, serial, monThread, monVars,
                   ghostVars, mutex, hasCallback, aborted, chanLock, auxVars, hint, target,
                   savedPort, oplog, failed>>

ConnectFailStatus(t) ==
    /\ At(t, "c_fail_status")
    /\ status' = "CONNECTION_ERROR"
    /\ Return(t, FALSE)
    /\ Goto(t, "c_ret")
    /\ UNCHANGED <<connected, monitoring, deviceInfo, serial, monThread, monVars,
                   ghostVars, mutex, hasCallback, aborted, chanLock, auxVars, hint, target,
                   savedPort, oplog, failed>>

\* mutant: DeviceInfo carries the caller's hint instead of the resolved port
ConnectInfo_HintPort(t) ==
    /\ At(t, "c_info")
    /\ deviceInfo' = [port |-> hint[t], description |-> TARGET_DESC,
                      vid |-> MAKCU_VID, pid |-> MAKCU_PID, isConnected |-> TRUE]
    /\ Goto(t, "c_setconn")
    /\ UNCHANGED <<status, connected, monitoring, serial, monThread, monVars,
                   ghostVars, mutex, hasCallback, aborted, chanLock, auxVars, locVars>>

\* deviceInfo = {targetPort, TARGET_DESC, MAKCU_VID, MAKCU_PID, true}
ConnectInfo(t) ==
    /\ At(t, "c_info")
    /\ deviceInfo' = [port |-> target[t], description |-> TARGET_DESC,
                      vid |-> MAKCU_VID, pid |-> MAKCU_PID, isConnected |-> TRUE]
    /\ Goto(t, "c_setconn")
    /\ UNCHANGED <<status, connected, monitoring, serial, monThread, monVars,
                   ghostVars, mutex, hasCallback, aborted, chanLock, auxVars, locVars>>

\* connected = true
ConnectSetConnected(t) ==
    /\ At(t, "c_setconn")
    /\ connected' = TRUE
    /\ Goto(t, "c_setstatus")
    /\ UNCHANGED <<status, monitoring, deviceInfo, serial, monThread, monVars,
                   ghostVars, mutex, hasCallback, aborted, chanLock, auxVars, locVars>>

\* status = CONNECTED
ConnectSetStatus(t) ==
    /\ At(t, "c_setstatus")
    /\ status' = "CONNECTED"
    /\ Goto(t, "sm_flag")
    /\ UNCHANGED <<connected, monitoring, deviceInfo, serial, monThread, monVars,
                   ghostVars, mutex, hasCallback, aborted, chanLock, auxVars, locVars>>

\* startMonitoring: if (monitoring) return; monitoring = true
StartMonFlag(t) ==
    /\ At(t, "sm_flag")
    /\ IF monitoring
       THEN /\ Return(t, TRUE)
            /\ Goto(t, "c_ret")
            /\ UNCHANGED <<monitoring, stopSamples, stopSleeps>>
       ELSE /\ monitoring' = TRUE
            /\ stopSamples' = 0
            /\ stopSleeps' = 0
            /\ UNCHANGED ret
            /\ Goto(t, "sm_spawn")
    /\ UNCHANGED <<status, connected, deviceInfo, serial, monThread, monVars,
                   lastDone, mutex, hasCallback, aborted, chanLock, auxVars, hint, target,
                   savedPort, oplog, failed>>

\* startMonitoring: monitorThread = std::thread(&Impl::monitoringLoop, this)
StartMonSpawn(t) ==
    /\ At(t, "sm_spawn")
    /\ IF monThread # "none"
       THEN \* assignment to a joinable std::thread calls std::terminate
            /\ aborted' = TRUE
            /\ UNCHANGED <<monThread, mpc, lastValue, ret, pc>>
       ELSE /\ monThread' = "running"
            /\ mpc' = "check"
            /\ lastValue' = 0
            /\ Return(t, TRUE)
            /\ Goto(t, "c_ret")
            /\ UNCHANGED aborted
    /\ UNCHANGED <<status, connected, monitoring, deviceInfo, serial, curByte,
                   bit, prevValue, cbLog, ghostVars, mutex, hasCallback, hint,
                   target, savedPort, oplog, failed, chanLock, auxVars>>

ConnectReturn(t) ==
    /\ Leave(t, "c_ret", IF ret[t] THEN "connect_ok" ELSE "connect_fail")
    /\ UNCHANGED <<sessVars, monVars, stopSamples, stopSleeps, hasCallback,
                   aborted, chanLock, auxVars>>

\* ---------------------------------------------------- Device::disconnect
DisconnectCall(t) ==
    /\ Enter(t, "d_lock", NoPort)
    /\ UNCHANGED <<sessVars, monVars, ghostVars, mutex, hasCallback, aborted, chanLock, auxVars>>

DisconnectLock(t) ==
    /\ Lock(t, "d_lock", "d_check")
    /\ UNCHANGED <<sessVars, monVars, locVars, ghostVars, hasCallback, aborted, chanLock, auxVars>>

\* mutant: disconnect without the not-connected early return
DisconnectCheck_NoEarlyReturn(t) ==
    /\ At(t, "d_check")
    /\ Goto(t, "tm_flag")
    /\ UNCHANGED <<sessVars, monVars, locVars, ghostVars, mutex, hasCallback,
                   aborted, chanLock, auxVars>>

\* if (!m_impl->connected) return;
DisconnectCheck(t) ==
    /\ At(t, "d_check")
    /\ IF ~connected THEN Goto(t, "d_ret") ELSE Goto(t, "tm_flag")
    /\ UNCHANGED <<sessVars, monVars, locVars, ghostVars, mutex, hasCallback,
                   aborted, chanLock, auxVars>>

\* mutant: stopMonitoring clears the flag and returns without joining
StopMonFlag_SkipJoin(t) ==
    /\ At(t, "tm_flag")
    /\ monitoring' = FALSE
    /\ Goto(t, "d_close")
    /\ UNCHANGED <<status, connected, deviceInfo, serial, monThread, monVars,
                   locVars, ghostVars, mutex, hasCallback, aborted, chanLock, auxVars>>

\* stopMonitoring: if (!monitoring) return; monitoring = false
StopMonFlag(t) ==
    /\ At(t, "tm_flag")
    /\ IF ~monitoring
       THEN Goto(t, "d_close") /\ UNCHANGED monitoring
       ELSE monitoring' = FALSE /\ Goto(t, "tm_join")
    /\ UNCHANGED <<status, connected, deviceInfo, serial, monThread, monVars,
                   locVars, ghostVars, mutex, hasCallback, aborted, chanLock, auxVars>>

\* mutant: stopMonitoring signals the loop and detaches instead of joining
StopMonJoin_Detach(t) ==
    /\ At(t, "tm_join")
    /\ Goto(t, "d_close")
    /\ UNCHANGED <<sessVars, monVars, locVars, ghostVars, mutex, hasCallback,
                   aborted, chanLock, auxVars>>

\* stopMonitoring: if (monitorThread.joinable()) monitorThread.join()
StopMonJoin(t) ==
    /\ At(t, "tm_join")
    /\ IF monThread = "none"
       THEN UNCHANGED monThread
       ELSE monThread = "finished" /\ monThread' = "none"
    /\ Goto(t, "d_close")
    /\ stopSamples' = 0
    /\ stopSleeps' = 0
    /\ UNCHANGED <<status, connected, monitoring, deviceInfo, serial, monVars,
                   locVars, lastDone, mutex, hasCallback, aborted, chanLock, auxVars>>

\* serialPort->close()
DisconnectClose(t) ==
    /\ At(t, "d_close")
    /\ chanLock = NoThread
    /\ serial' = SP_Close(serial)
    /\ Log(t, OpClose)
    /\ Goto(t, "d_setconn")
    /\ UNCHANGED <<status, connected, monitoring, deviceInfo, monThread, monVars,
                   ghostVars, mutex, hasCallback, aborted, chanLock, auxVars, hint, target,
                   savedPort, ret, failed>>

\* connected = false
DisconnectSetConnected(t) ==
    /\ At(t, "d_setconn")
    /\ connected' = FALSE
    /\ Goto(t, "d_setstatus")
    /\ UNCHANGED <<status, monitoring, deviceInfo, serial, monThread, monVars,
                   locVars, ghostVars, mutex, hasCallback, aborted, chanLock, auxVars>>

\* status = DISCONNECTED
DisconnectSetStatus(t) ==
    /\ At(t, "d_setstatus")
    /\ status' = "DISCONNECTED"
    /\ Goto(t, "d_info")
    /\ UNCHANGED <<connected, monitoring, deviceInfo, serial, monThread, monVars,
                   locVars, ghostVars, mutex, hasCallback, aborted, chanLock, auxVars>>

\* deviceInfo.isConnected = false
DisconnectInfo(t) ==
    /\ At(t, "d_info")
    /\ deviceInfo' = [deviceInfo EXCEPT !.isConnected = FALSE]
    /\ Goto(t, "d_ret")
    /\ UNCHANGED <<status, connected, monitoring, serial, monThread, monVars,
                   locVars, ghostVars, mutex, hasCallback, aborted, chanLock, auxVars>>

DisconnectReturn(t) ==
    /\ Leave(t, "d_ret", "disconnect")
    /\ UNCHANGED <<sessVars, monVars, stopSamples, stopSleeps, hasCallback,
                   aborted, chanLock, auxVars>>

\* ------------------------------------------- Device::setMouseButtonCallback
SetMouseButtonCallback ==
    /\ ~aborted
    /\ \E b \in BOOLEAN : b # hasCallback /\ hasCallback' = b
    /\ UNCHANGED <<sessVars, monVars, locVars, ghostVars, mutex, aborted, chanLock, auxVars, pc>>

\* ------------------------------------------------ Impl::monitoringLoop
\* mutant: the loop condition ignores the monitoring flag
MonCheck_IgnoresFlag ==
    /\ mpc = "check" /\ ~aborted
    /\ IF connected
       THEN mpc' = "avail" /\ UNCHANGED <<monThread, lastValue>>
       ELSE mpc' = "off" /\ monThread' = "finished" /\ lastValue' = 0
    /\ UNCHANGED <<status, connected, monitoring, deviceInfo, serial, curByte,
                   bit, prevValue, cbLog, locVars, ghostVars, mutex,
                   hasCallback, aborted, pc, chanLock, auxVars>>

\* while (monitoring && connected)
MonCheck ==
    /\ mpc = "check" /\ ~aborted
    /\ IF monitoring /\ connected
       THEN mpc' = "avail" /\ UNCHANGED <<monThread, lastValue>>
       ELSE mpc' = "off" /\ monThread' = "finished" /\ lastValue' = 0
    /\ UNCHANGED <<status, connected, monitoring, deviceInfo, serial, curByte,
                   bit, prevValue, cbLog, locVars, ghostVars, mutex,
                   hasCallback, aborted, pc, chanLock, auxVars>>

\* mutant: available() enters the Channel without taking its lock
MonAvailableLock_NoLock ==
    /\ mpc = "avail" /\ ~aborted
    /\ mpc' = "avail_in"
    /\ UNCHANGED <<sessVars, lastValue, curByte, bit, prevValue, cbLog, locVars,
                   ghostVars, mutex, hasCallback, aborted, pc, chanLock,
                   auxVars>>

\* serialPort->available() : std::lock_guard<std::mutex> lock(m_mutex)
MonAvailableLock ==
    /\ mpc = "avail" /\ ~aborted
    /\ chanLock = NoThread
    /\ chanLock' = MonThread
    /\ mpc' = "avail_in"
    /\ UNCHANGED <<sessVars, lastValue, curByte, bit, prevValue, cbLog, locVars,
                   ghostVars, mutex, hasCallback, aborted, pc, auxVars>>

\* if (serialPort->available() > 0) : the body of available() and its return
MonAvailable ==
    /\ mpc = "avail_in" /\ ~aborted
    /\ \E n \in {0, 1} :
         mpc' = IF SP_Available(serial, n) > 0 THEN "read" ELSE "sleep"
    /\ chanLock' = NoThread
    /\ stopSamples' = IF monitoring THEN stopSamples ELSE Bump(stopSamples)
    /\ UNCHANGED <<sessVars, lastValue, curByte, bit, prevValue, cbLog, locVars,
                   lastDone, stopSleeps, mutex, hasCallback, aborted, pc,
                   auxVars>>

\* serialPort->readByte(byte) -> read(1) : std::lock_guard lock(m_mutex)
MonReadLock ==
    /\ mpc = "read" /\ ~aborted
    /\ chanLock = NoThread
    /\ chanLock' = MonThread
    /\ mpc' = "read_in"
    /\ UNCHANGED <<sessVars, lastValue, curByte, bit, prevValue, cbLog, locVars,
                   ghostVars, mutex, hasCallback, aborted, pc, auxVars>>

\* mutant: every byte read is processed, equal to the last one or not
MonRead_NoCompare ==
    /\ mpc = "read_in" /\ ~aborted
    /\ \E b \in Bytes \cup {NoByte} :
         LET data == SP_Read(serial, 1, IF b = NoByte THEN <<>> ELSE <<b>>)
             got == IF data = <<>> THEN NoByte ELSE data[1] IN
         /\ curByte' = got
         /\ prevValue' = lastValue
         /\ IF got # NoByte
            THEN IF hasCallback
                 THEN mpc' = "cb" /\ UNCHANGED lastValue
                 ELSE lastValue' = got /\ mpc' = "sleep"
            ELSE mpc' = "sleep" /\ UNCHANGED lastValue
    /\ chanLock' = NoThread
    /\ UNCHANGED <<sessVars, bit, cbLog, locVars, ghostVars, mutex, hasCallback,
                   aborted, pc, auxVars>>

\* if (readByte(byte)) { if (byte != lastValue) { processButtonData(byte);
\* lastValue = byte; } } : the read, the comparison and, when no callback is
\* registered, the immediate return of processButtonData
MonReadOf(queued) ==
    /\ mpc = "read_in" /\ ~aborted
    /\ \E b \in queued :
         LET data == SP_Read(serial, 1, IF b = NoByte THEN <<>> ELSE <<b>>)
             got == IF data = <<>> THEN NoByte ELSE data[1] IN
         /\ curByte' = got
         /\ prevValue' = lastValue
         /\ IF got # NoByte /\ got # lastValue
            THEN IF hasCallback
                 THEN mpc' = "cb" /\ UNCHANGED lastValue
                 ELSE lastValue' = got /\ mpc' = "sleep"
            ELSE mpc' = "sleep" /\ UNCHANGED lastValue
    /\ chanLock' = NoThread
    /\ UNCHANGED <<sessVars, bit, cbLog, locVars, ghostVars, mutex, hasCallback,
                   aborted, pc, auxBase>>

\* the read when the device may have sent any byte, or none
MonRead ==
    /\ MonReadOf(Bytes \cup {NoByte})
    /\ UNCHANGED rxVars

\* mutant: only the buttons whose bit changed are reported
MonCallback_ChangedBitsOnly ==
    /\ mpc = "cb" /\ ~aborted
    /\ IF ~hasCallback
       THEN mpc' = "caught" /\ UNCHANGED <<lastValue, bit, cbLog>>
       ELSE /\ cbLog' = IF BitOf(curByte, bit) # BitOf(lastValue, bit)
                        THEN Append(cbLog, <<bit, BitOf(curByte, bit)>>)
                        ELSE cbLog
            /\ IF bit < 4
               THEN bit' = bit + 1 /\ UNCHANGED <<mpc, lastValue>>
               ELSE lastValue' = curByte /\ mpc' = "sleep" /\ bit' = 0
    /\ UNCHANGED <<sessVars, curByte, prevValue, locVars, ghostVars, mutex,
                   hasCallback, aborted, pc, chanLock, auxVars>>

\* processButtonData: mouseButtonCallback(static_cast<MouseButton>(bit),
\* data & (1 << bit)) for one bit, the handler returning normally; after bit 4
\* lastValue = byte.  A callback object emptied by setMouseButtonCallback
\* while the loop runs raises std::bad_function_call.
MonCallback ==
    /\ mpc = "cb" /\ ~aborted
    /\ IF ~hasCallback
       THEN mpc' = "caught" /\ UNCHANGED <<lastValue, bit, cbLog>>
       ELSE /\ cbLog' = Append(cbLog, <<bit, BitOf(curByte, bit)>>)
            /\ IF bit < 4
               THEN bit' = bit + 1 /\ UNCHANGED <<mpc, lastValue>>
               ELSE lastValue' = curByte /\ mpc' = "sleep" /\ bit' = 0
    /\ UNCHANGED <<sessVars, curByte, prevValue, locVars, ghostVars, mutex,
                   hasCallback, aborted, pc, chanLock, auxVars>>

\* the handler is invoked for one bit and throws: an exception derived from
\* std::exception reaches the catch clause of the loop, any other exception
\* leaves monitoringLoop and the thread function (std::terminate)
MonCallbackThrows ==
    /\ mpc = "cb" /\ ~aborted
    /\ hasCallback
    /\ cbLog' = Append(cbLog, <<bit, BitOf(curByte, bit)>>)
    /\ \E e \in {"std_exception", "other"} :
         IF e = "std_exception"
         THEN mpc' = "caught" /\ UNCHANGED aborted
         ELSE aborted' = TRUE /\ UNCHANGED mpc
    /\ UNCHANGED <<sessVars, lastValue, curByte, bit, prevValue, locVars,
                   ghostVars, mutex, hasCallback, pc, chanLock, auxVars>>

\* available() or readByte() throws while taking m_mutex (std::system_error)
MonChannelThrows ==
    /\ mpc \in {"avail", "read"} /\ ~aborted
    /\ mpc' = "caught"
    /\ UNCHANGED <<sessVars, lastValue, curByte, bit, prevValue, cbLog, locVars,
                   ghostVars, mutex, hasCallback, aborted, pc, chanLock,
                   auxVars>>

\* catch (const std::exception& e) { std::cerr << ... }
MonCaught ==
    /\ mpc = "caught" /\ ~aborted
    /\ mpc' = "sleep"
    /\ UNCHANGED <<sessVars, lastValue, curByte, bit, prevValue, cbLog, locVars,
                   ghostVars, mutex, hasCallback, aborted, pc, chanLock,
                   auxVars>>

\* std::this_thread::sleep_for(5ms); the locals of the iteration end
MonSleep ==
    /\ mpc = "sleep" /\ ~aborted
    /\ mpc' = "check"
    /\ curByte' = NoByte
    /\ bit' = 0
    /\ prevValue' = 0
    /\ cbLog' = <<>>
    /\ stopSleeps' = IF monitoring THEN stopSleeps ELSE Bump(stopSleeps)
    /\ UNCHANGED <<sessVars, lastValue, locVars, lastDone, stopSamples, mutex,
                   hasCallback, aborted, pc, chanLock, auxVars>>

Monitor ==
    \/ MonCheck \/ MonAvailableLock \/ MonAvailable \/ MonReadLock \/ MonRead
    \/ MonCallback \/ MonCaught \/ MonSleep

ConnectBody(t) ==
    \/ ConnectCheck(t) \/ ConnectResolve(t) \/ ConnectOpen(t)
    \/ HsWrite(t) \/ HsFlush(t) \/ HsClose(t) \/ HsReopen(t)
    \/ InitWrite(t) \/ InitFlush(t)
    \/ ConnectFailClose(t) \/ ConnectFailStatus(t)
    \/ ConnectInfo(t) \/ ConnectSetConnected(t) \/ ConnectSetStatus(t)
    \/ StartMonFlag(t) \/ StartMonSpawn(t) \/ ConnectReturn(t)

DisconnectBody(t) ==
    \/ DisconnectCheck(t) \/ StopMonFlag(t) \/ StopMonJoin(t)
    \/ DisconnectClose(t) \/ DisconnectSetConnected(t)
    \/ DisconnectSetStatus(t) \/ DisconnectInfo(t) \/ DisconnectReturn(t)

Next ==
    \/ \E t \in Threads :
         \/ ConnectCall(t) \/ ConnectLock(t) \/ ConnectBody(t)
         \/ DisconnectCall(t) \/ DisconnectLock(t) \/ DisconnectBody(t)
    \/ Monitor
    \/ SetMouseButtonCallback

Spec == Init /\ [][Next]_vars

\* The scheduler runs every runnable thread: the monitoring thread keeps
\* stepping (a callback in progress returns) and a thread inside disconnect
\* keeps stepping.
FairSpec ==
    /\ Spec
    /\ WF_vars(Monitor)
    /\ \A t \in Threads : WF_vars(DisconnectBody(t))

\* ------------------------------------------------- polling-loop exceptions
\* The behaviours in which handlers and Channel calls may throw inside the
\* polling loop.
ExcNext == Next \/ MonCallbackThrows \/ MonChannelThrows

ExcSpec == Init /\ [][ExcNext]_vars

\* ------------------------------------- a handler that calls disconnect
\* The registered button handler calls Device::disconnect: the call runs on
\* the polling thread, inside processButtonData.
cbRest == <<cmdVars, chanRes, macroVars, fileVars, afterStop, hres, rxVars>>

\* the handler is invoked for one bit and calls disconnect()
CbDisconnectCall ==
    /\ mpc = "cb" /\ ~aborted
    /\ hasCallback
    /\ cbLog' = Append(cbLog, <<bit, BitOf(curByte, bit)>>)
    /\ cbCall' = "running"
    /\ mpc' = "cbd_lock"
    /\ UNCHANGED <<sessVars, lastValue, curByte, bit, prevValue, locVars,
                   ghostVars, mutex, hasCallback, aborted, pc, chanLock, cbRest>>

\* std::lock_guard<std::mutex> lock(m_impl->mutex), on the polling thread
CbDisconnectLock ==
    /\ mpc = "cbd_lock" /\ ~aborted
    /\ mutex = NoThread
    /\ mutex' = MonThread
    /\ mpc' = "cbd_check"
    /\ UNCHANGED <<sessVars, lastValue, curByte, bit, prevValue, cbLog, locVars,
                   ghostVars, hasCallback, aborted, pc, chanLock, auxVars>>

\* disconnect returns to the handler and the handler to processButtonData:
\* the lock_guard releases the mutex, the loop over the bits goes on
CbReturns ==
    /\ mutex' = NoThread
    /\ cbCall' = "returned"
    /\ IF bit < 4
       THEN bit' = bit + 1 /\ mpc' = "cb" /\ UNCHANGED lastValue
       ELSE lastValue' = curByte /\ mpc' = "sleep" /\ bit' = 0

\* serialPort->close(); connected = false; status = DISCONNECTED;
\* deviceInfo.isConnected = false; return
CbFinish ==
    /\ serial' = SP_Close(serial)
    /\ connected' = FALSE
    /\ status' = "DISCONNECTED"
    /\ deviceInfo' = [deviceInfo EXCEPT !.isConnected = FALSE]
    /\ CbReturns

\* if (!m_impl->connected) return;
CbDisconnectCheck ==
    /\ mpc = "cbd_check" /\ ~aborted
    /\ IF ~connected
       THEN CbReturns
       ELSE mpc' = "cbd_flag" /\ UNCHANGED <<mutex, cbCall, bit, lastValue>>
    /\ UNCHANGED <<sessVars, curByte, prevValue, cbLog, locVars, ghostVars,
                   hasCallback, aborted, pc, chanLock, cbRest>>

\* stopMonitoring: if (!monitoring) return; monitoring = false
CbStopMonFlag ==
    /\ mpc = "cbd_flag" /\ ~aborted
    /\ IF ~monitoring
       THEN CbFinish /\ UNCHANGED monitoring
       ELSE /\ monitoring' = FALSE
            /\ mpc' = "cbd_join"
            /\ UNCHANGED <<status, connected, deviceInfo, serial, mutex, cbCall,
                           bit, lastValue>>
    /\ UNCHANGED <<monThread, curByte, prevValue, cbLog, locVars, ghostVars,
                   hasCallback, aborted, pc, chanLock, cbRest>>

\* stopMonitoring: if (monitorThread.joinable()) monitorThread.join(), called
\* on monitorThread itself: join throws std::system_error
\* (resource_deadlock_would_occur), which leaves disconnect (the lock_guard
\* releases the mutex), the handler and processButtonData
CbStopMonJoin ==
    /\ mpc = "cbd_join" /\ ~aborted
    /\ IF monThread = "none"
       THEN CbFinish
       ELSE /\ mutex' = NoThread
            /\ cbCall' = "threw"
            /\ mpc' = "caught"
            /\ UNCHANGED <<status, connected, deviceInfo, serial, bit, lastValue>>
    /\ UNCHANGED <<monitoring, monThread, curByte, prevValue, cbLog, locVars,
                   ghostVars, hasCallback, aborted, pc, chanLock, cbRest>>

CbDisconnect ==
    \/ CbDisconnectCall \/ CbDisconnectLock \/ CbDisconnectCheck
    \/ CbStopMonFlag \/ CbStopMonJoin

\* one foreground thread connects and disconnects
ReentNext ==
    \/ ConnectCall("t1") \/ ConnectLock("t1") \/ ConnectBody("t1")
    \/ DisconnectCall("t1") \/ DisconnectLock("t1") \/ DisconnectBody("t1")
    \/ Monitor
    \/ SetMouseButtonCallback
    \/ CbDisconnect

ReentSpec == Init /\ [][ReentNext]_vars

\* ------------------------------------------------------ command methods
\* "km.init()\r" (Device::reset) and "km.version()\r" (Device::getVersion)
RESET_COMMAND == <<107, 109, 46, 105, 110, 105, 116, 40, 41, 13>>
VERSION_COMMAND == <<107, 109, 46, 118, 101, 114, 115, 105, 111, 110, 40, 41, 13>>
\* receiveRawResponse: readString(1024)
RESPONSE_MAX == 1024
MaxCmds == 2

OpRead == [op |-> "read", port |-> NoPort, baud |-> 0, data |-> <<>>]
CommandBytes(c) == IF c.kind = "query" THEN VERSION_COMMAND ELSE RESET_COMMAND

\* the thread that connects and disconnects, and the thread that issues
\* commands
Connectors == {"t1"}
Commanders == {"t2"}

cmdBase == <<sessVars, monVars, hint, target, savedPort, failed, ghostVars,
             mutex, hasCallback, aborted, chanRes, macroVars, fileVars,
             afterStop, hres, cbCall>>
cmdRest == <<cmdBase, rxVars>>

\* a fire-and-forget command (reset) or a query (getVersion) is called
CmdCall(t) ==
    /\ pc[t] = "idle" /\ ~aborted
    /\ issued < MaxCmds
    /\ \E k \in {"send", "query"} :
         cmd' = [cmd EXCEPT ![t] = [kind |-> k, n |-> issued + 1]]
    /\ issued' = issued + 1
    /\ Goto(t, "m_check")
    /\ UNCHANGED <<cmdRest, ret, oplog, reply, wire, chanLock>>

\* mutant: the command method goes on to the write without looking at the
\* connected flag
CmdCheck_NoCheck(t) ==
    /\ At(t, "m_check")
    /\ Goto(t, "s_lock")
    /\ UNCHANGED <<cmdRest, ret, oplog, cmdVars, chanLock>>

\* if (!m_impl->connected) return false;  (return "" in a query)
CmdCheck(t) ==
    /\ At(t, "m_check")
    /\ IF ~connected THEN Goto(t, "m_ret") ELSE Goto(t, "s_check")
    /\ UNCHANGED <<cmdRest, ret, oplog, cmdVars, chanLock>>

\* sendRawCommand: if (!m_impl->connected) return false;
SendCheck(t) ==
    /\ At(t, "s_check")
    /\ IF ~connected THEN Goto(t, "m_ret") ELSE Goto(t, "s_lock")
    /\ UNCHANGED <<cmdRest, ret, oplog, cmdVars, chanLock>>

\* serialPort->write(command) : std::lock_guard<std::mutex> lock(m_mutex)
SendLock(t) ==
    /\ At(t, "s_lock")
    /\ chanLock = NoThread
    /\ chanLock' = t
    /\ Goto(t, "s_write")
    /\ UNCHANGED <<cmdRest, ret, oplog, cmdVars>>

\* the body of write and its return; a query goes on to receiveRawResponse
\* when the write succeeded
SendWrite(t) ==
    /\ At(t, "s_write")
    /\ \E ok \in BOOLEAN :
         LET written == SP_Write(serial, CommandBytes(cmd[t]), ok) IN
         /\ wire' = IF written THEN Append(wire, <<t, cmd[t].n>>) ELSE wire
         /\ IF cmd[t].kind = "query"
            THEN /\ UNCHANGED ret
                 /\ IF written THEN Goto(t, "r_check") ELSE Goto(t, "m_ret")
            ELSE Return(t, written) /\ Goto(t, "m_ret")
    /\ Log(t, OpWrite(CommandBytes(cmd[t])))
    /\ chanLock' = NoThread
    /\ UNCHANGED <<cmdRest, cmd, reply, issued>>

\* receiveRawResponse: if (!m_impl->connected) return ""; sleep_for(50ms)
RecvCheck(t) ==
    /\ At(t, "r_check")
    /\ IF ~connected THEN Goto(t, "m_ret") ELSE Goto(t, "r_lock")
    /\ UNCHANGED <<cmdRest, ret, oplog, cmdVars, chanLock>>

\* serialPort->readString(1024) -> read : std::lock_guard lock(m_mutex)
RecvLock(t) ==
    /\ At(t, "r_lock")
    /\ chanLock = NoThread
    /\ chanLock' = t
    /\ Goto(t, "r_read")
    /\ UNCHANGED <<cmdRest, ret, oplog, cmdVars>>

\* the body of read and its return: the query returns the bytes read
RecvReadOf(t, queued) ==
    /\ At(t, "r_read")
    /\ \E incoming \in queued :
         reply' = [reply EXCEPT ![t] = SP_Read(serial, RESPONSE_MAX, incoming)]
    /\ Log(t, OpRead)
    /\ chanLock' = NoThread
    /\ Goto(t, "m_ret")
    /\ UNCHANGED <<cmdBase, ret, cmd, wire, issued>>

\* the response read when the device may have sent one byte, or none
RecvRead(t) ==
    /\ RecvReadOf(t, {<<>>} \cup {<<b>> : b \in Bytes})
    /\ UNCHANGED rxVars

\* the command method returns ret (reply in a query) to its caller
CmdReturn(t) ==
    /\ At(t, "m_ret")
    /\ Goto(t, "idle")
    /\ cmd' = [cmd EXCEPT ![t] = NoCmd]
    /\ reply' = [reply EXCEPT ![t] = <<>>]
    /\ ret' = [ret EXCEPT ![t] = FALSE]
    /\ oplog' = [oplog EXCEPT ![t] = <<>>]
    /\ UNCHANGED <<cmdRest, wire, issued, chanLock>>

Command(t) ==
    \/ CmdCall(t) \/ CmdCheck(t) \/ SendCheck(t) \/ SendLock(t) \/ SendWrite(t)
    \/ RecvCheck(t) \/ RecvLock(t) \/ RecvRead(t) \/ CmdReturn(t)

\* the polling loop of a program that registers no button handler
MonitorPolling ==
    \/ MonCheck \/ MonAvailableLock \/ MonAvailable \/ MonReadLock \/ MonRead
    \/ MonSleep

CmdNext ==
    \/ \E t \in Connectors :
         \/ ConnectCall(t) \/ ConnectLock(t) \/ ConnectBody(t)
         \/ DisconnectCall(t) \/ DisconnectLock(t) \/ DisconnectBody(t)
    \/ \E t \in Commanders : Command(t)
    \/ MonitorPolling

CmdSpec == Init /\ [][CmdNext]_vars

\* ------------------------------------------------- the receive queue
\* The bytes the device has sent wait in the receive queue of the open port;
\* available() reports their number, read() takes them from the front.  The
\* device sends status bytes on its own and REPLY in answer to a query.
MaxRx == 1
REPLY == <<2, 1>>
\* the status byte of the left button held down
StatusBytes == {1}
StatusByte(b) == [byte |-> b, reply |-> FALSE]
ReplyByte(b) == [byte |-> b, reply |-> TRUE]
QueuedBytes == [i \in 1..Len(rx.queue) |-> rx.queue[i].byte]
AwaitingReply(t) ==
    /\ pc[t] \in {"r_check", "r_lock", "r_read"}
    /\ cmd[t].n # rx.answered

rxRest == <<devVars, aborted, chanLock, cmdVars, chanRes, macroVars, fileVars,
            afterStop, hres, cbCall, stolen>>

\* a button changes: the device sends a status byte
DeviceStatus ==
    /\ ~aborted
    /\ connected /\ serial.isOpen
    /\ Len(rx.queue) < MaxRx
    /\ \E b \in StatusBytes :
         rx' = [rx EXCEPT !.queue = Append(@, StatusByte(b))]
    /\ UNCHANGED rxRest

\* the device answers the query a thread has written
DeviceReply ==
    /\ ~aborted
    /\ connected /\ serial.isOpen
    /\ \E t \in Commanders :
         /\ AwaitingReply(t)
         /\ rx' = [queue |-> rx.queue \o [i \in 1..Len(REPLY) |-> ReplyByte(REPLY[i])],
                   answered |-> cmd[t].n]
    /\ UNCHANGED rxRest

\* available() returns the number of bytes queued
RxMonAvailable ==
    /\ MonAvailable
    /\ (mpc' = "read") <=> (SP_Available(serial, Len(rx.queue)) > 0)

\* readByte takes the byte at the front of the queue, whoever it was sent to
RxMonRead ==
    /\ MonReadOf({IF rx.queue = <<>> THEN NoByte ELSE Head(rx.queue).byte})
    /\ IF serial.isOpen /\ rx.queue # <<>>
       THEN /\ rx' = [rx EXCEPT !.queue = Tail(@)]
            /\ stolen' = stolen + (IF Head(rx.queue).reply THEN 1 ELSE 0)
       ELSE UNCHANGED rxVars

\* readString(1024) takes every byte queued
RxRecvRead(t) ==
    /\ RecvReadOf(t, {QueuedBytes})
    /\ rx' = IF serial.isOpen THEN [rx EXCEPT !.queue = <<>>] ELSE rx
    /\ UNCHANGED stolen

\* the program connects to COM3, then issues commands
ConnectCom3(t) == ConnectCall(t) /\ hint'[t] = "COM3"

ReplyNext ==
    \/ \E t \in Connectors :
         ConnectCom3(t) \/ ConnectLock(t) \/ ConnectBody(t)
    \/ \E t \in Commanders :
         \/ CmdCall(t) \/ CmdCheck(t) \/ SendCheck(t) \/ SendLock(t)
         \/ SendWrite(t) \/ RecvCheck(t) \/ RecvLock(t) \/ RxRecvRead(t)
         \/ CmdReturn(t)
    \/ MonCheck \/ MonAvailableLock \/ RxMonAvailable \/ MonReadLock
    \/ RxMonRead \/ MonSleep
    \/ DeviceStatus \/ DeviceReply

ReplySpec == Init /\ [][ReplyNext]_vars

\* ------------------------------------- SerialPort methods called directly
\* A program that drives a SerialPort object itself (examples and tests do):
\* every method runs under m_mutex from its first statement to its return.
Harness == "harness"
MaxRead == 2
BaudRates == {INITIAL_BAUD_RATE, HIGH_SPEED_BAUD_RATE}
Incoming == {<<>>} \cup {<<b>> : b \in Bytes} \cup {<<b, 0>> : b \in Bytes}

\* the method called, whether the port was open, the argument (bytes to
\* write, maxBytes), and what the method returned
Res(o, a, r, d, c) ==
    [op |-> o, wasOpen |-> serial.isOpen, arg |-> a, ok |-> r, data |-> d,
     count |-> c, call |-> 1 - chanRes.call]

chanRest == <<status, connected, monitoring, deviceInfo, monThread, monVars,
              locVars, ghostVars, mutex, hasCallback, aborted, pc, cmdVars,
              macroVars, fileVars, afterStop, hres, cbCall, rxVars>>

\* open(port, baudRate): on an open port it calls close(), which locks the
\* non-recursive m_mutex that open already holds.  Locking a std::mutex the
\* thread owns is undefined: the thread waits for itself for ever, or lock()
\* throws std::system_error, which leaves close and open (the lock_guard of
\* open releases m_mutex)
ChanOpen ==
    /\ chanLock = NoThread
    /\ \E p \in Ports, b \in BaudRates, ok \in BOOLEAN :
         IF serial.isOpen
         THEN /\ \E relock \in {"open_stuck", "open_threw"} :
                   /\ chanLock' = IF relock = "open_stuck" THEN Harness ELSE NoThread
                   /\ chanRes' = Res(relock, 0, FALSE, <<>>, 0)
              /\ UNCHANGED serial
         ELSE /\ serial' = SP_Open(serial, p, b, ok)
              /\ chanRes' = Res("open", 0, ok, <<>>, 0)
              /\ UNCHANGED chanLock
    /\ UNCHANGED chanRest

ChanClose ==
    /\ chanLock = NoThread
    /\ serial' = SP_Close(serial)
    /\ chanRes' = Res("close", 0, TRUE, <<>>, 0)
    /\ UNCHANGED <<chanRest, chanLock>>

ChanWrite ==
    /\ chanLock = NoThread
    /\ \E data \in {<<>>, RESET_COMMAND}, ok \in BOOLEAN :
         chanRes' = Res("write", Len(data), SP_Write(serial, data, ok), <<>>, 0)
    /\ UNCHANGED <<chanRest, chanLock, serial>>

ChanFlush ==
    /\ chanLock = NoThread
    /\ \E ok \in BOOLEAN :
         chanRes' = Res("flush", 0, SP_Flush(serial, ok), <<>>, 0)
    /\ UNCHANGED <<chanRest, chanLock, serial>>

ChanRead ==
    /\ chanLock = NoThread
    /\ \E maxBytes \in 0..MaxRead, incoming \in Incoming :
         chanRes' = Res("read", maxBytes, TRUE,
                        SP_Read(serial, maxBytes, incoming), 0)
    /\ UNCHANGED <<chanRest, chanLock, serial>>

ChanAvailable ==
    /\ chanLock = NoThread
    /\ \E queued \in 0..MaxRead :
         chanRes' = Res("available", 0, TRUE, <<>>, SP_Available(serial, queued))
    /\ UNCHANGED <<chanRest, chanLock, serial>>

ChanNext ==
    \/ ChanOpen \/ ChanClose \/ ChanWrite \/ ChanFlush \/ ChanRead
    \/ ChanAvailable

ChanSpec == Init /\ [][ChanNext]_vars

\* ---------------------------------------------------------- MacroRecorder
\* One thread (Caller) authors a macro with add* and clear and plays it;
\* playbackAsync runs playback on m_playbackThread (Worker).  No recording is
\* started, and the Device the actions are executed on stays disconnected, so
\* that execute changes nothing outside the recorder.
MaxActions == 2
MaxRep == 2
ActionTypes == {"KEY_PRESS", "DELAY"}

macroBase == <<devVars, chanLock, cmdVars, chanRes, fileVars, hres, cbCall,
               rxVars>>
macroRest == <<macroBase, afterStop>>
playLocals == <<repeatCount, rep, idx, previousTimestamp, executed>>
loopLocals == <<repeatCount, rep, idx, previousTimestamp>>
InPlayback(t) == ppc[t] \in {"p_check", "p_set", "p_rep", "p_act", "p_exec",
                             "p_end", "p_ret"}
CallerIdle == ppc[Caller] = "idle" /\ ~aborted

\* MacroRecorder::getCurrentTimestamp
CurrentTimestamp == IF ~m_recording THEN 0 ELSE elapsed

\* m_actions is written while a playback reads it; the record of what that
\* playback executed ends there
MarkMutated(new) ==
    /\ mutated' = [t \in Players |->
                     mutated[t] \/ (InPlayback(t) /\ new # m_actions)]
    /\ executed' = [t \in Players |->
                      IF InPlayback(t) /\ new # m_actions THEN <<>>
                      ELSE executed[t]]

\* mutant: the new action takes the place of the list
AddAction_Replaces ==
    /\ CallerIdle
    /\ Len(m_actions) < MaxActions
    /\ \E ty \in ActionTypes :
         LET new == <<[type |-> ty, timestamp |-> CurrentTimestamp]>> IN
         m_actions' = new /\ MarkMutated(new)
    /\ UNCHANGED <<macroRest, aborted, m_recording, m_playing, m_stopPlayback,
                   m_useTimestamps, m_minimumDelay, elapsed, worker, ppc,
                   loopLocals, pret, stopReq>>

\* addKeyPress / addDelay: timestamp = getCurrentTimestamp(); push_back
AddAction ==
    /\ CallerIdle
    /\ Len(m_actions) < MaxActions
    /\ \E ty \in ActionTypes :
         LET new == Append(m_actions, [type |-> ty,
                                       timestamp |-> CurrentTimestamp]) IN
         m_actions' = new /\ MarkMutated(new)
    /\ UNCHANGED <<macroRest, aborted, m_recording, m_playing, m_stopPlayback,
                   m_useTimestamps, m_minimumDelay, elapsed, worker, ppc,
                   loopLocals, pret, stopReq>>

\* mutant: clear empties the list whatever the flags
Clear_Unconditional ==
    /\ CallerIdle
    /\ m_actions' = <<>> /\ MarkMutated(<<>>)
    /\ UNCHANGED <<macroRest, aborted, m_recording, m_playing, m_stopPlayback,
                   m_useTimestamps, m_minimumDelay, elapsed, worker, ppc,
                   loopLocals, pret, stopReq>>

\* clear: if (m_recording || m_playing) return; m_actions.clear()
Clear ==
    /\ CallerIdle
    /\ IF m_recording \/ m_playing
       THEN UNCHANGED <<m_actions, mutated, executed>>
       ELSE m_actions' = <<>> /\ MarkMutated(<<>>)
    /\ UNCHANGED <<macroRest, aborted, m_recording, m_playing, m_stopPlayback,
                   m_useTimestamps, m_minimumDelay, elapsed, worker, ppc,
                   loopLocals, pret, stopReq>>

\* a thread enters playback(device, n) with fresh locals
EnterPlayback(t, n) ==
    /\ ppc' = [ppc EXCEPT ![t] = "p_check"]
    /\ repeatCount' = [repeatCount EXCEPT ![t] = n]
    /\ rep' = [rep EXCEPT ![t] = 0]
    /\ idx' = [idx EXCEPT ![t] = 0]
    /\ previousTimestamp' = [previousTimestamp EXCEPT ![t] = 0]
    /\ executed' = [executed EXCEPT ![t] = <<>>]
    /\ stopReq' = [stopReq EXCEPT ![t] = FALSE]
    /\ mutated' = [mutated EXCEPT ![t] = FALSE]
    /\ pret' = [pret EXCEPT ![t] = FALSE]

\* the Caller calls playback(device, n)
PlaybackCall ==
    /\ CallerIdle
    /\ \E n \in 0..MaxRep : EnterPlayback(Caller, n)
    /\ UNCHANGED <<macroRest, aborted, recVars>>

\* playbackAsync: if (m_playing) return false;
\* m_playbackThread = std::thread(&MacroRecorder::playbackLoop, ...)
PlaybackAsync ==
    /\ CallerIdle
    /\ IF m_playing
       THEN UNCHANGED <<worker, aborted, playVars>>
       ELSE IF worker # "none"
            THEN \* assignment to a joinable std::thread calls std::terminate
                 aborted' = TRUE /\ UNCHANGED <<worker, playVars>>
            ELSE /\ worker' = "running"
                 /\ \E n \in 0..MaxRep : EnterPlayback(Worker, n)
                 /\ UNCHANGED aborted
    /\ UNCHANGED <<macroRest, m_actions, m_recording, m_playing,
                   m_stopPlayback, m_useTimestamps, m_minimumDelay, elapsed>>

\* stopPlayback: m_stopPlayback = true
StopPlaybackFlag ==
    /\ CallerIdle
    /\ m_stopPlayback' = TRUE
    /\ stopReq' = [t \in Players |-> stopReq[t] \/ InPlayback(t)]
    /\ ppc' = [ppc EXCEPT ![Caller] = "sp_join"]
    /\ UNCHANGED <<macroRest, aborted, m_actions, m_recording, m_playing,
                   m_useTimestamps, m_minimumDelay, elapsed, worker, playLocals,
                   pret, mutated>>

\* mutant: stopPlayback lets go of the worker without waiting for its end
StopPlaybackJoin_NoWait ==
    /\ ppc[Caller] = "sp_join" /\ ~aborted
    /\ worker' = "none"
    /\ m_playing' = FALSE
    /\ ppc' = [ppc EXCEPT ![Caller] = "idle"]
    /\ UNCHANGED <<macroRest, aborted, m_actions, m_recording, m_stopPlayback,
                   m_useTimestamps, m_minimumDelay, elapsed, playLocals, pret,
                   stopReq, mutated>>

\* stopPlayback: if (joinable()) join(); m_playing = false
StopPlaybackJoin ==
    /\ ppc[Caller] = "sp_join" /\ ~aborted
    /\ IF worker = "none"
       THEN UNCHANGED worker
       ELSE worker = "finished" /\ worker' = "none"
    /\ m_playing' = FALSE
    /\ ppc' = [ppc EXCEPT ![Caller] = "idle"]
    /\ UNCHANGED <<macroRest, aborted, m_actions, m_recording, m_stopPlayback,
                   m_useTimestamps, m_minimumDelay, elapsed, playLocals, pret,
                   stopReq, mutated>>

PAt(t, l) == ppc[t] = l /\ ~aborted
PGoto(t, l) == ppc' = [ppc EXCEPT ![t] = l]

\* if (m_playing || m_actions.empty()) return false;
PlayCheck(t) ==
    /\ PAt(t, "p_check")
    /\ IF m_playing \/ m_actions = <<>>
       THEN PGoto(t, "p_ret")
       ELSE PGoto(t, "p_set")
    /\ UNCHANGED <<macroRest, aborted, recVars, playLocals, pret, stopReq,
                   mutated>>

\* mutant: playback leaves the stop flag as it finds it
PlaySet_KeepsStopFlag(t) ==
    /\ PAt(t, "p_set")
    /\ m_playing' = TRUE
    /\ PGoto(t, "p_rep")
    /\ UNCHANGED <<macroRest, aborted, m_actions, m_recording, m_stopPlayback,
                   m_useTimestamps, m_minimumDelay, elapsed, worker, playLocals,
                   pret, stopReq, mutated>>

\* m_playing = true; m_stopPlayback = false;
PlaySet(t) ==
    /\ PAt(t, "p_set")
    /\ m_playing' = TRUE
    /\ m_stopPlayback' = FALSE
    /\ PGoto(t, "p_rep")
    /\ UNCHANGED <<macroRest, aborted, m_actions, m_recording, m_useTimestamps,
                   m_minimumDelay, elapsed, worker, playLocals, pret, stopReq,
                   mutated>>

\* for (rep = 0; rep < repeatCount && !m_stopPlayback; ++rep) : the test;
\* previousTimestamp = 0 and the range-for starts at the first action
PlayRep(t) ==
    /\ PAt(t, "p_rep")
    /\ IF rep[t] < repeatCount[t] /\ ~m_stopPlayback
       THEN /\ previousTimestamp' = [previousTimestamp EXCEPT ![t] = 0]
            /\ idx' = [idx EXCEPT ![t] = 1]
            /\ PGoto(t, "p_act")
       ELSE /\ UNCHANGED <<previousTimestamp, idx>>
            /\ PGoto(t, "p_end")
    /\ UNCHANGED <<macroRest, aborted, recVars, repeatCount, rep, executed,
                   pret, stopReq, mutated>>

\* mutant: every positive gap is slept, whatever the threshold
SleepBefore_NoThreshold(action, previous) ==
    IF m_useTimestamps /\ action.timestamp > previous
    THEN action.timestamp - previous
    ELSE 0

\* the delay playback sleeps before an action, 0 for none
SleepBefore(action, previous) ==
    IF m_useTimestamps /\ action.timestamp > previous
       /\ action.timestamp - previous >= m_minimumDelay
    THEN action.timestamp - previous
    ELSE 0

\* one round of the range-for: the end test, if (m_stopPlayback) break, and
\* the sleep before the action
PlayAct(t) ==
    /\ PAt(t, "p_act")
    /\ IF idx[t] > Len(m_actions) \/ m_stopPlayback
       THEN /\ rep' = [rep EXCEPT ![t] = @ + 1]
            /\ PGoto(t, "p_rep")
            /\ UNCHANGED <<executed, afterStop>>
       ELSE LET action == m_actions[idx[t]]
                delay == SleepBefore(action, previousTimestamp[t]) IN
            /\ executed' =
                 IF delay > 0 /\ ~mutated[t]
                 THEN [executed EXCEPT ![t] =
                         Append(@, [kind |-> "sleep", i |-> idx[t],
                                    action |-> action, ms |-> delay])]
                 ELSE executed
            /\ afterStop' = IF stopReq[t]
                            THEN [afterStop EXCEPT ![t] = @ + 1]
                            ELSE afterStop
            /\ PGoto(t, "p_exec")
            /\ UNCHANGED rep
    /\ UNCHANGED <<macroBase, aborted, recVars, repeatCount, idx,
                   previousTimestamp, pret, stopReq, mutated>>

\* what action->execute(device) returns: DelayAction::execute sleeps and
\* returns true, KeyAction::execute returns what Device::keyPress returns,
\* false when the Device is not connected
ExecuteResult(action) == IF action.type = "DELAY" THEN TRUE ELSE connected

\* mutant: playback gives up and returns false when an action fails
PlayExec_StopsOnFailure(t) ==
    /\ PAt(t, "p_exec")
    /\ idx[t] <= Len(m_actions)
    /\ LET action == m_actions[idx[t]] IN
       /\ executed' = IF mutated[t] THEN executed
                      ELSE [executed EXCEPT ![t] =
                              Append(@, [kind |-> "exec", i |-> idx[t],
                                         action |-> action, ms |-> 0])]
       /\ previousTimestamp' = [previousTimestamp EXCEPT ![t] = action.timestamp]
       /\ IF ExecuteResult(action)
          THEN PGoto(t, "p_act") /\ UNCHANGED <<m_playing, pret>>
          ELSE /\ PGoto(t, "p_ret")
               /\ m_playing' = FALSE
               /\ pret' = [pret EXCEPT ![t] = FALSE]
    /\ idx' = [idx EXCEPT ![t] = @ + 1]
    /\ UNCHANGED <<macroRest, aborted, m_actions, m_recording, m_stopPlayback,
                   m_useTimestamps, m_minimumDelay, elapsed, worker,
                   repeatCount, rep, stopReq, mutated>>

\* action->execute(device); previousTimestamp = action->timestamp
PlayExec(t) ==
    /\ PAt(t, "p_exec")
    /\ idx[t] <= Len(m_actions)
    /\ LET action == m_actions[idx[t]] IN
       /\ executed' = IF mutated[t] THEN executed
                      ELSE [executed EXCEPT ![t] =
                              Append(@, [kind |-> "exec", i |-> idx[t],
                                         action |-> action, ms |-> 0])]
       /\ previousTimestamp' = [previousTimestamp EXCEPT ![t] = action.timestamp]
    /\ idx' = [idx EXCEPT ![t] = @ + 1]
    /\ PGoto(t, "p_act")
    /\ UNCHANGED <<macroRest, aborted, recVars, repeatCount, rep, pret, stopReq,
                   mutated>>

\* the range-for runs on a vector that another thread has changed: the
\* iterators are invalid and the process may fault
PlayCrash(t) ==
    /\ ppc[t] \in {"p_act", "p_exec"} /\ ~aborted
    /\ mutated[t]
    /\ aborted' = TRUE
    /\ UNCHANGED <<macroRest, macroVars>>

\* m_playing = false; return true;
PlayEnd(t) ==
    /\ PAt(t, "p_end")
    /\ m_playing' = FALSE
    /\ pret' = [pret EXCEPT ![t] = TRUE]
    /\ PGoto(t, "p_ret")
    /\ UNCHANGED <<macroRest, aborted, m_actions, m_recording, m_stopPlayback,
                   m_useTimestamps, m_minimumDelay, elapsed, worker, playLocals,
                   stopReq, mutated>>

\* playback has returned; on the Worker playbackLoop and the thread end
PlayReturn(t) ==
    /\ PAt(t, "p_ret")
    /\ PGoto(t, "idle")
    /\ worker' = IF t = Worker THEN "finished" ELSE worker
    /\ repeatCount' = [repeatCount EXCEPT ![t] = 0]
    /\ rep' = [rep EXCEPT ![t] = 0]
    /\ idx' = [idx EXCEPT ![t] = 0]
    /\ previousTimestamp' = [previousTimestamp EXCEPT ![t] = 0]
    /\ executed' = [executed EXCEPT ![t] = <<>>]
    /\ stopReq' = [stopReq EXCEPT ![t] = FALSE]
    /\ mutated' = [mutated EXCEPT ![t] = FALSE]
    /\ pret' = [pret EXCEPT ![t] = FALSE]
    /\ afterStop' = [afterStop EXCEPT ![t] = 0]
    /\ UNCHANGED <<macroBase, aborted, m_actions, m_recording, m_playing,
                   m_stopPlayback, m_useTimestamps, m_minimumDelay, elapsed>>

Playback(t) ==
    \/ PlayCheck(t) \/ PlaySet(t) \/ PlayRep(t) \/ PlayAct(t) \/ PlayExec(t)
    \/ PlayCrash(t) \/ PlayEnd(t) \/ PlayReturn(t)

MacroNext ==
    \/ AddAction \/ Clear
    \/ PlaybackCall \/ PlaybackAsync \/ StopPlaybackFlag \/ StopPlaybackJoin
    \/ \E t \in Players : Playback(t)

MacroSpec == Init /\ [][MacroNext]_vars

\* ------------------------------------------------ recording and authoring
\* readings of steady_clock::now() - m_recordingStart, in milliseconds
Instants == {0, 200, 250}
MinimumDelays == {DEFAULT_MINIMUM_DELAY, 100}
MaxRecorded == 3

RecRes(o, r) == [op |-> o, ok |-> r, call |-> 1 - recRes.call]
recRest == <<devVars, chanLock, cmdVars, chanRes, aborted, m_playing,
             m_stopPlayback, worker, ppc, loopLocals, pret, stopReq, file,
             trip, afterStop, hres, cbCall, rxVars>>

\* startRecording: if (m_recording) return false; m_actions.clear();
\* m_recordingStart = now; m_recording = true; return true
StartRecording ==
    /\ CallerIdle
    /\ IF m_recording
       THEN /\ recRes' = RecRes("startRecording", FALSE)
            /\ UNCHANGED <<m_actions, mutated, executed, elapsed, m_recording>>
       ELSE /\ m_actions' = <<>> /\ MarkMutated(<<>>)
            /\ elapsed' = 0
            /\ m_recording' = TRUE
            /\ recRes' = RecRes("startRecording", TRUE)
    /\ UNCHANGED <<recRest, m_useTimestamps, m_minimumDelay,
                   m_recordMouseMovement>>

\* stopRecording: if (!m_recording) return false; m_recording = false;
\* the clock is read only while recording
StopRecording ==
    /\ CallerIdle
    /\ IF ~m_recording
       THEN /\ recRes' = RecRes("stopRecording", FALSE)
            /\ UNCHANGED <<elapsed, m_recording>>
       ELSE /\ m_recording' = FALSE
            /\ elapsed' = 0
            /\ recRes' = RecRes("stopRecording", TRUE)
    /\ UNCHANGED <<recRest, m_actions, mutated, executed, m_useTimestamps,
                   m_minimumDelay, m_recordMouseMovement>>

\* time passes during a recording
ClockTick ==
    /\ ~aborted
    /\ m_recording
    /\ \E now \in Instants : now > elapsed /\ elapsed' = now
    /\ UNCHANGED <<recRest, m_actions, mutated, executed, m_recording,
                   m_useTimestamps, m_minimumDelay, m_recordMouseMovement,
                   recRes>>

\* action->timestamp = getCurrentTimestamp(); m_actions.push_back(action)
Record(ty) ==
    LET new == Append(m_actions, [type |-> ty,
                                  timestamp |-> CurrentTimestamp]) IN
    m_actions' = new /\ MarkMutated(new)

\* an on* notification: returns at once unless gate holds, else records
OnEvent(name, gate, ty) ==
    /\ Len(m_actions) < MaxRecorded
    /\ IF gate THEN Record(ty) ELSE UNCHANGED <<m_actions, mutated, executed>>
    /\ recRes' = RecRes(name, TRUE)
    /\ UNCHANGED <<recRest, m_recording, elapsed, m_useTimestamps,
                   m_minimumDelay, m_recordMouseMovement>>

\* onKeyboard: if (!m_recording) return; KEY_DOWN or KEY_UP by isPressed
OnKeyboard ==
    /\ CallerIdle
    /\ \E isPressed \in BOOLEAN :
         OnEvent("onKeyboard", m_recording,
                 IF isPressed THEN "KEY_DOWN" ELSE "KEY_UP")

\* onMouseButton: if (!m_recording) return; MOUSE_DOWN or MOUSE_UP
OnMouseButton ==
    /\ CallerIdle
    /\ \E isPressed \in BOOLEAN :
         OnEvent("onMouseButton", m_recording,
                 IF isPressed THEN "MOUSE_DOWN" ELSE "MOUSE_UP")

\* mutant: pointer moves are recorded whenever a recording runs
OnMouseMove_IgnoresFlag ==
    /\ CallerIdle
    /\ OnEvent("onMouseMove", m_recording, "MOUSE_MOVE")

\* onMouseMove: if (!m_recording || !m_recordMouseMovement) return
OnMouseMove ==
    /\ CallerIdle
    /\ OnEvent("onMouseMove", m_recording /\ m_recordMouseMovement,
               "MOUSE_MOVE")

\* onMouseWheel: if (!m_recording) return
OnMouseWheel ==
    /\ CallerIdle
    /\ OnEvent("onMouseWheel", m_recording, "MOUSE_WHEEL")

\* setRecordMouseMovement
SetRecordMouseMovement ==
    /\ CallerIdle
    /\ \E record \in BOOLEAN : m_recordMouseMovement' = record
    /\ UNCHANGED <<recRest, m_actions, mutated, executed, m_recording, elapsed,
                   m_useTimestamps, m_minimumDelay, recRes>>

\* setMinimumDelay
SetMinimumDelay ==
    /\ CallerIdle
    /\ \E milliseconds \in MinimumDelays : m_minimumDelay' = milliseconds
    /\ UNCHANGED <<recRest, m_actions, mutated, executed, m_recording, elapsed,
                   m_useTimestamps, m_recordMouseMovement, recRes>>

\* setTimestampMode
SetTimestampMode ==
    /\ CallerIdle
    /\ \E useTimestamps \in BOOLEAN : m_useTimestamps' = useTimestamps
    /\ UNCHANGED <<recRest, m_actions, mutated, executed, m_recording, elapsed,
                   m_minimumDelay, m_recordMouseMovement, recRes>>

RecNext ==
    \/ StartRecording \/ StopRecording \/ ClockTick
    \/ OnKeyboard \/ OnMouseButton \/ OnMouseMove \/ OnMouseWheel
    \/ SetRecordMouseMovement
    \/ AddAction \/ Clear

RecSpec == Init /\ [][RecNext]_vars

\* a recorder used from one thread: record, adjust the pacing, play back
PaceNext ==
    \/ StartRecording \/ StopRecording \/ ClockTick \/ OnKeyboard
    \/ SetMinimumDelay \/ SetTimestampMode
    \/ PlaybackCall
    \/ PlayCheck(Caller) \/ PlaySet(Caller) \/ PlayRep(Caller)
    \/ PlayAct(Caller) \/ PlayExec(Caller) \/ PlayEnd(Caller)
    \/ PlayReturn(Caller)

PaceSpec == Init /\ [][PaceNext]_vars

\* a recorder edited from one thread while it records or while the worker of
\* playbackAsync plays
EditNext ==
    \/ AddAction \/ Clear \/ StartRecording \/ StopRecording
    \/ PlaybackAsync \/ StopPlaybackFlag \/ StopPlaybackJoin
    \/ PlayCheck(Worker) \/ PlaySet(Worker) \/ PlayRep(Worker)
    \/ PlayAct(Worker) \/ PlayExec(Worker) \/ PlayCrash(Worker)
    \/ PlayEnd(Worker) \/ PlayReturn(Worker)

EditSpec == Init /\ [][EditNext]_vars

\* ------------------------------------------------------------ macro files
VERSION_TAG == "MAKCU_MACRO_V1"
\* a line of text, and a line of comma-separated numbers
TextLine(t) == [text |-> t, nums |-> <<>>]
NumLine(ns) == [text |-> "", nums |-> ns]

\* enum class ActionType
TypeCode(ty) ==
    CASE ty = "KEY_DOWN" -> 0
      [] ty = "KEY_UP" -> 1
      [] ty = "KEY_PRESS" -> 2
      [] ty = "MOUSE_DOWN" -> 5
      [] ty = "MOUSE_UP" -> 6
      [] ty = "MOUSE_MOVE" -> 8
      [] ty = "MOUSE_WHEEL" -> 10
      [] ty = "DELAY" -> 11

\* file << timestamp.count() << "," << serialize() : the timestamp, the type
\* number and the fields of the variant (the fields are not modelled)
Serialize(action) == NumLine(<<action.timestamp, TypeCode(action.type)>>)

\* what saveToFile writes: the tag, the action count, one line per action
FileOf(list) ==
    [exists |-> TRUE,
     lines |-> <<TextLine(VERSION_TAG), NumLine(<<Len(list)>>)>>
               \o [i \in 1..Len(list) |-> Serialize(list[i])]]

\* std::getline(file, header); header != "MAKCU_MACRO_V1"
HeaderOk(f) == Len(f.lines) >= 1 /\ f.lines[1] = TextLine(VERSION_TAG)

\* file >> actionCount : the number on the second line; a failed extraction
\* stores 0
ParseCount(f) ==
    IF Len(f.lines) >= 2 /\ Len(f.lines[2].nums) = 1
    THEN f.lines[2].nums[1]
    ELSE 0

\* the action lines that follow the count
ActionLines(f) == IF Len(f.lines) <= 2 THEN <<>> ELSE SubSeq(f.lines, 3, Len(f.lines))

\* the loop of loadFromFile reads actionCount lines with std::getline and
\* creates no action from them: the list stays as clear() left it
LoadedActions(f, actionCount) == <<>>

aKeyPress == [type |-> "KEY_PRESS", timestamp |-> 0]
\* the files put on disk from outside: none, an empty one, a foreign tag, the
\* tag alone, a count that is no number, fewer lines than declared, a complete
\* file
Files ==
    {NoFile,
     [exists |-> TRUE, lines |-> <<>>],
     [exists |-> TRUE, lines |-> <<TextLine("MAKCU_MACRO_V2"), NumLine(<<0>>)>>],
     [exists |-> TRUE, lines |-> <<TextLine(VERSION_TAG)>>],
     [exists |-> TRUE, lines |-> <<TextLine(VERSION_TAG), TextLine("many")>>],
     [exists |-> TRUE, lines |-> <<TextLine(VERSION_TAG), NumLine(<<2>>),
                                   Serialize(aKeyPress)>>],
     FileOf(<<aKeyPress>>)}

fileRest == <<devVars, chanLock, cmdVars, chanRes, aborted, m_recording,
              m_playing, m_stopPlayback, m_useTimestamps, m_minimumDelay,
              elapsed, worker, ppc, loopLocals, pret, stopReq,
              m_recordMouseMovement, afterStop, hres, cbCall, rxVars>>

\* a file appears, changes or disappears on disk
PutFile ==
    /\ ~aborted
    /\ \E f \in Files : f # file /\ file' = f
    /\ trip' = NoTrip
    /\ UNCHANGED <<fileRest, m_actions, mutated, executed, recRes>>

\* saveToFile: std::ofstream file(filename); if (!is_open()) return false;
\* header, count, one line per action; return true
SaveToFile ==
    /\ CallerIdle
    /\ \E opened \in BOOLEAN :
         IF ~opened
         THEN /\ recRes' = RecRes("saveToFile", FALSE)
              /\ trip' = NoTrip
              /\ UNCHANGED file
         ELSE /\ file' = FileOf(m_actions)
              /\ recRes' = RecRes("saveToFile", TRUE)
              /\ trip' = IF trip.stage = 2 /\ trip.list = m_actions
                         THEN [trip EXCEPT !.stage = 3]
                         ELSE [stage |-> 1, first |-> FileOf(m_actions),
                               list |-> m_actions]
    /\ UNCHANGED <<fileRest, m_actions, mutated, executed>>

\* mutant: the list is emptied before the file is examined
LoadFromFile_ClearsFirst ==
    /\ CallerIdle
    /\ m_actions' = <<>> /\ MarkMutated(<<>>)
    /\ recRes' = RecRes("loadFromFile",
                        ~(m_recording \/ m_playing) /\ file.exists
                        /\ HeaderOk(file))
    /\ trip' = NoTrip
    /\ UNCHANGED <<fileRest, file>>

\* loadFromFile: false if recording or playing, if the file does not open or
\* if its first line is not the tag; else read the count, clear the list,
\* read the lines, return true
LoadFromFile ==
    /\ CallerIdle
    /\ IF m_recording \/ m_playing \/ ~file.exists \/ ~HeaderOk(file)
       THEN /\ recRes' = RecRes("loadFromFile", FALSE)
            /\ trip' = NoTrip
            /\ UNCHANGED <<m_actions, mutated, executed>>
       ELSE LET new == LoadedActions(file, ParseCount(file)) IN
            /\ m_actions' = new /\ MarkMutated(new)
            /\ recRes' = RecRes("loadFromFile", TRUE)
            /\ trip' = IF trip.stage = 1 /\ trip.list = m_actions
                          /\ trip.first = file
                       THEN [trip EXCEPT !.stage = 2, !.list = new]
                       ELSE NoTrip
    /\ UNCHANGED <<fileRest, file>>

FileNext == AddAction \/ PutFile \/ SaveToFile \/ LoadFromFile

FileSpec == Init /\ [][FileNext]_vars

\* ------------------------------------------- GamingUtilities::humanizeDelay
\* uint32_t values are kept as two 16-bit limbs <<high, low>>, so that the
\* values above INT32_MAX are represented
MaxVariance == 20
BaseDelays == {0, 1, 10, 100}
Limb == 65536
INT32_MAX == 2147483647

\* static_cast<uint32_t>(x) of an int32_t x: x modulo 2^32
ToUint32(x) ==
    IF x >= 0
    THEN <<x \div Limb, x % Limb>>
    ELSE LET y == (x + INT32_MAX) + 1 IN <<32768 + y \div Limb, y % Limb>>

\* a <= b and std::max(a, b) on uint32_t values
U32Leq(a, b) == a[1] < b[1] \/ (a[1] = b[1] /\ a[2] <= b[2])
U32Max(a, b) == IF U32Leq(a, b) THEN b ELSE a

\* std::max(1u, static_cast<uint32_t>(static_cast<int32_t>(baseDelay) +
\* randomOffset)), randomOffset being what dis(gen) returned
HumanizedDelay(baseDelay, randomOffset) ==
    U32Max(ToUint32(1), ToUint32(baseDelay + randomOffset))

humanRest == <<devVars, aborted, chanLock, cmdVars, chanRes, macroVars,
               fileVars, afterStop, cbCall, rxVars>>

\* humanizeDelay(baseDelay, variance): uniform_int_distribution<> dis(
\* -static_cast<int>(variance), static_cast<int>(variance)) draws the offset
HumanizeDelay ==
    /\ \E baseDelay \in BaseDelays, variance \in 0..MaxVariance :
         \E randomOffset \in (0 - variance)..variance :
           hres' = [baseDelay |-> baseDelay, variance |-> variance,
                    randomOffset |-> randomOffset,
                    result |-> HumanizedDelay(baseDelay, randomOffset),
                    call |-> 1]
    /\ UNCHANGED humanRest

HumanNext == HumanizeDelay

HumanSpec == Init /\ [][HumanNext]_vars

\* ------------------------------------------------------------------ claims
DisconnectPcs == {"d_check", "tm_flag", "tm_join", "d_close", "d_setconn",
                  "d_setstatus", "d_info", "d_ret"}
BeforeConnectedPcs == {"c_open", "hs_write", "hs_flush", "hs_close",
                       "hs_reopen", "in_write", "in_flush", "c_info",
                       "c_setconn", "c_fail_close", "c_fail_status"}
SuccessfulConnectOps(p) ==
    << OpOpen(p, 115200), OpWrite(<<222, 173, 5, 0, 165, 0, 9, 61, 0>>),
       OpFlush, OpClose, OpOpen(p, 4000000), OpWrite(INIT_COMMAND), OpFlush >>

\* C1: when a step of connect has failed (open at 115200, write of the magic
\* bytes, flush, reopen at 4000000, write of the initialization command, its
\* flush), connect returns false with status CONNECTION_ERROR, the connected
\* flag false, the Channel closed and no monitoring thread running.
C1_FailedConnectEndsInError ==
    \A t \in Threads :
        (pc[t] = "c_ret" /\ failed[t] # "none")
        => /\ ret[t] = FALSE
           /\ status = "CONNECTION_ERROR"
           /\ ~connected
           /\ ~serial.isOpen
           /\ serial.handles = 0
           /\ monThread # "running"

\* the initialization command timed out after open, handshake and reopen
C1_Witness ==
    \E t \in Threads :
        /\ pc[t] = "c_ret"
        /\ failed[t] = "write2"
        /\ Len(oplog[t]) = 7

\* C2: in every state another thread can observe, isConnected() only if
\* getStatus() is CONNECTED, and getStatus() is CONNECTED only if the Channel
\* is open at the high-speed rate (initialization done).
C2_NoPartialConnected ==
    /\ connected => status = "CONNECTED"
    /\ status = "CONNECTED"
       => (serial.isOpen /\ serial.baudRate = HIGH_SPEED_BAUD_RATE)

\* C3: disconnect, called in any state, returns with status DISCONNECTED, the
\* Channel closed and the monitoring thread joined.
C3_DisconnectAlwaysDisconnected ==
    \A t \in Threads :
        pc[t] = "d_ret"
        => (status = "DISCONNECTED" /\ ~serial.isOpen /\ monThread = "none")

\* C4: a connect that finds the Session connected returns true, performs no
\* Channel operation and leaves status, the connected flag, DeviceInfo, the
\* Channel and the monitoring thread as they are.
C4_ConnectWhenConnected ==
    [][ \A t \in Threads :
          /\ (pc[t] = "c_check" /\ connected /\ pc'[t] # pc[t])
             => /\ pc'[t] = "c_ret"
                /\ ret'[t] = TRUE
                /\ oplog'[t] = <<>>
                /\ UNCHANGED <<sessVars, monVars>>
          /\ (pc[t] = "c_ret" /\ target[t] = Unset /\ pc'[t] # pc[t])
             => /\ pc'[t] = "idle"
                /\ ret[t] = TRUE
                /\ oplog[t] = <<>>
                /\ UNCHANGED <<sessVars, monVars>> ]_vars

\* a connect returns early after an earlier connect returned true
C4_Witness ==
    \E t \in Threads :
        /\ pc[t] = "c_ret"
        /\ target[t] = Unset
        /\ ret[t] = TRUE
        /\ lastDone = "connect_ok"

\* C5: a disconnect that follows a disconnect performs no Channel operation
\* and changes no Session variable.
C5_DisconnectIdempotent ==
    [][ \A t \in Threads :
          (lastDone = "disconnect" /\ pc[t] \in DisconnectPcs /\ pc'[t] # pc[t])
          => /\ oplog[t] = <<>>
             /\ oplog'[t] = <<>>
             /\ UNCHANGED <<sessVars, monVars>> ]_vars

\* a second disconnect returns, the Session having been connected before
C5_Witness ==
    \E t \in Threads :
        /\ pc[t] = "d_ret"
        /\ lastDone = "disconnect"
        /\ status = "DISCONNECTED"
        /\ deviceInfo.port # NoPort

\* C6: when disconnect returns the monitoring thread is joined, and from
\* then on (the connected flag being false) no callback is running.
C6_NoCallbackAfterDisconnect ==
    /\ \A t \in Threads :
          pc[t] = "d_ret" => (~connected /\ monThread = "none" /\ mpc = "off")
    /\ mpc # "off" => (connected /\ monThread = "running")

\* a disconnect that closed the Channel returns while a callback is registered
C6_Witness ==
    \E t \in Threads :
        /\ pc[t] = "d_ret"
        /\ oplog[t] = <<OpClose>>
        /\ hasCallback
        /\ lastDone = "connect_ok"

\* C7: the monitoring thread is running exactly when status is CONNECTED.
C7_LoopRunsIffConnected ==
    (monThread = "running") <=> (status = "CONNECTED")

\* C8: a successful connect performs open(port, 115200), write of the 9 magic
\* bytes, flush, close, open(port, 4000000), write of km.buttons(1), flush, in
\* this order; status is CONNECTED and the loop started only after them; the
\* Channel is closed between the close and the reopen, at most one handle is
\* open.
C8_ConnectOrder ==
    /\ \A t \in Threads :
          /\ (pc[t] \in {"c_ret", "sm_flag", "sm_spawn", "c_setstatus", "c_setconn", "c_info"}
              /\ target[t] \in Ports /\ failed[t] = "none")
             => oplog[t] = SuccessfulConnectOps(target[t])
          /\ pc[t] \in BeforeConnectedPcs
             => (status # "CONNECTED" /\ monThread # "running" /\ ~monitoring)
          /\ pc[t] = "hs_reopen" => (~serial.isOpen /\ serial.handles = 0)
    /\ serial.handles <= 1

\* a connect that went through the handshake returns true
C8_Witness ==
    \E t \in Threads :
        /\ pc[t] = "c_ret"
        /\ ret[t] = TRUE
        /\ target[t] \in Ports
        /\ status = "CONNECTED"
        /\ monThread = "running"

\* C9: a disconnect that holds the Session mutex returns; after the monitoring
\* flag is cleared the loop takes at most one further sample and one sleep.
C9_DisconnectTerminates ==
    /\ [](stopSamples <= 1 /\ stopSleeps <= 1)
    /\ \A t \in Threads : (pc[t] = "d_check") ~> (pc[t] = "d_ret")

\* the join finds the loop ended after one further sample and one sleep
C9_Witness ==
    \E t \in Threads :
        /\ pc[t] = "tm_join"
        /\ monThread = "finished"
        /\ stopSamples = 1
        /\ stopSleeps = 1

\* C10: connect with an empty hint and no discovered port returns false with
\* status CONNECTION_ERROR and performs no Channel operation.
C10_NoPortFound ==
    \A t \in Threads :
        target[t] = NoPort
        => /\ hint[t] = NoPort
           /\ pc[t] = "c_ret"
           /\ ret[t] = FALSE
           /\ status = "CONNECTION_ERROR"
           /\ oplog[t] = <<>>
           /\ ~serial.isOpen

\* discovery found nothing for a connect without a hint
C10_Witness ==
    \E t \in Threads :
        /\ pc[t] = "c_ret"
        /\ hint[t] = NoPort
        /\ target[t] = NoPort

\* C11: when connect returns true the connected flag is true, status is
\* CONNECTED and DeviceInfo is marked connected and carries the resolved target
\* port; when the disconnect that follows a successful connect returns, the
\* flag is false, status is DISCONNECTED and DeviceInfo is marked not
\* connected; a Device on which no call was made has status DISCONNECTED.
C11_ConnectDisconnectObservables ==
    /\ \A t \in Threads :
          /\ (pc[t] = "c_ret" /\ ret[t])
             => /\ connected
                /\ status = "CONNECTED"
                /\ deviceInfo.isConnected
                /\ deviceInfo.port \in Ports
                /\ target[t] # Unset => deviceInfo.port = target[t]
          /\ (pc[t] = "d_ret" /\ lastDone = "connect_ok")
             => /\ ~connected
                /\ status = "DISCONNECTED"
                /\ ~deviceInfo.isConnected
    /\ (lastDone = "none" /\ \A t \in Threads : pc[t] = "idle")
       => (status = "DISCONNECTED" /\ ~connected /\ ~deviceInfo.isConnected)

\* the disconnect that follows a connect by discovery (empty hint) returns
C11_Witness ==
    \E t \in Threads :
        /\ pc[t] = "d_ret"
        /\ lastDone = "connect_ok"
        /\ oplog[t] = <<OpClose>>
        /\ deviceInfo.port \in Ports
        /\ ~deviceInfo.isConnected

\* C12: a monitoring thread is started only when none exists (the previous
\* one, if any, has ended and was joined), through every sequence of
\* connects, failed connects, disconnects and reconnects; the loop runs only
\* on the one thread object, and the thread object is never overwritten while
\* joinable.
C12_AtMostOneMonitorThread ==
    /\ \A t \in Threads :
          pc[t] = "sm_spawn" => (monThread = "none" /\ mpc = "off")
    /\ mpc # "off" => monThread = "running"
    /\ monThread = "finished" => \E t \in Threads : pc[t] = "tm_join"
    /\ ~aborted

\* a reconnect is about to start its thread after a disconnect joined the
\* previous one
C12_Witness ==
    \E t \in Threads :
        /\ pc[t] = "sm_spawn"
        /\ lastDone = "disconnect"
        /\ deviceInfo.port \in Ports
        /\ monThread = "none"

\* C13: a command method that finds the Session not connected returns false
\* (the empty string in a query) at once: no Channel write or read is performed
\* and nothing is written to the wire, by the check of the method itself and
\* by the check inside sendRawCommand / receiveRawResponse; the method then
\* returns without trying again.
C13_CommandWhenNotConnected ==
    [][ \A t \in Commanders :
          /\ (pc[t] \in {"m_check", "s_check", "r_check"} /\ ~connected
               /\ pc'[t] # pc[t])
             => /\ pc'[t] = "m_ret"
                /\ ret'[t] = FALSE
                /\ reply'[t] = <<>>
                /\ oplog'[t] = oplog[t]
                /\ wire' = wire
                /\ serial' = serial
          /\ (pc[t] = "m_check" /\ ~connected) => oplog[t] = <<>>
          /\ (pc[t] = "m_ret" /\ pc'[t] # pc[t])
             => (pc'[t] = "idle" /\ wire' = wire /\ serial' = serial) ]_vars

\* a query issued after a failed connect returns the empty string
C13_Witness ==
    \E t \in Commanders :
        /\ pc[t] = "m_ret"
        /\ cmd[t].kind = "query"
        /\ oplog[t] = <<>>
        /\ reply[t] = <<>>
        /\ status = "CONNECTION_ERROR"

FiveCallbacks(b) == [i \in 1..5 |-> <<i - 1, BitOf(b, i - 1)>>]

\* C14: when the loop has read a byte b2 different from the previous byte b1
\* and a handler is registered, the handler is invoked for buttons 0, 1, 2, 3,
\* 4 in this order, each time with pressed = bit i of b2, and after the fifth
\* invocation has returned the processing of the byte ends with exactly these
\* five invocations and b2 as the new previous byte.
C14_FiveCallbacksPerChange ==
    /\ [](mpc = "cb"
           => /\ curByte \in Bytes
              /\ curByte # lastValue
              /\ bit \in 0..4
              /\ cbLog = SubSeq(FiveCallbacks(curByte), 1, bit))
    /\ [][ (mpc = "cb" /\ mpc' = "sleep")
            => (cbLog' = FiveCallbacks(curByte) /\ lastValue' = curByte) ]_vars

\* byte 2 after byte 1: button 0 released, button 1 pressed, all five reported
C14_Witness ==
    /\ mpc = "sleep"
    /\ prevValue = 1
    /\ curByte = 2
    /\ cbLog = << <<0, FALSE>>, <<1, TRUE>>, <<2, FALSE>>, <<3, FALSE>>,
                  <<4, FALSE>> >>

\* C15: a byte equal to the previously observed byte causes no callback and
\* leaves the previous byte as it is; callbacks happen only for a byte that
\* differs from it; the previous byte is 0 when a loop is started.
C15_NoCallbackOnSameByte ==
    /\ []((mpc = "sleep" /\ curByte # NoByte /\ curByte = prevValue)
           => (cbLog = <<>> /\ lastValue = prevValue))
    /\ [](cbLog # <<>> => (curByte # NoByte /\ curByte # prevValue))
    /\ [][ (monThread # "running" /\ monThread' = "running")
            => lastValue' = 0 ]_vars

\* byte 1 was read again while a handler is registered
C15_Witness ==
    /\ mpc = "sleep"
    /\ hasCallback
    /\ curByte = 1
    /\ prevValue = 1
    /\ cbLog = <<>>

\* the threads inside a Channel method
InChannel ==
    {t \in Threads : pc[t] \in {"s_write", "r_read"}}
    \cup (IF mpc \in {"avail_in", "read_in"} THEN {MonThread} ELSE {})

\* C16: the commands of one foreground thread reach the wire in call order,
\* each at most once, and at most one thread is inside a Channel method: the
\* polling thread's available/read and a foreground write or read never
\* overlap, and connect / disconnect change the Channel only when no thread
\* is inside it.
C16_ChannelSerialized ==
    /\ [](Cardinality(InChannel) <= 1)
    /\ [](\A i, j \in 1..Len(wire) :
             (i < j /\ wire[i][1] = wire[j][1]) => wire[i][2] < wire[j][2])
    /\ [][ serial' # serial => InChannel = {} ]_vars

\* two commands of the same thread are on the wire while the loop polls
C16_Witness ==
    /\ Len(wire) = 2
    /\ wire[1][1] = wire[2][1]
    /\ mpc = "read_in"
    /\ \E t \in Commanders : pc[t] = "r_lock"

\* C17: an exception raised inside an iteration of the polling loop, by a
\* Channel call or by the handler, is caught in that iteration and never
\* leaves the polling thread.
C17_ExceptionsStayInLoop ==
    ~(aborted /\ monThread = "running" /\ mpc = "cb")

\* C18: on a closed Channel write and flush return false, read returns no
\* byte and available returns 0, whatever the arguments and whatever the
\* operating system would have answered, and the call leaves the Channel as
\* it is (closed, same port name and rate, no handle).
C18_ClosedChannelOps ==
    /\ []((chanRes.op \in {"write", "flush", "read", "available"}
            /\ ~chanRes.wasOpen)
           => /\ (chanRes.op \in {"write", "flush"} => ~chanRes.ok)
              /\ chanRes.data = <<>>
              /\ chanRes.count = 0
              /\ ~serial.isOpen
              /\ serial.handles = 0)
    /\ [][ (chanRes' # chanRes
             /\ chanRes'.op \in {"write", "flush", "read", "available"})
            => serial' = serial ]_vars

\* a write of ten bytes on a Channel that was opened and closed before
C18_Witness ==
    /\ chanRes.op = "write"
    /\ chanRes.arg = 10
    /\ ~chanRes.wasOpen
    /\ ~chanRes.ok
    /\ serial.portName \in Ports
    /\ serial.baudRate = HIGH_SPEED_BAUD_RATE

\* the state of the recorder that its callers can observe
recState == <<m_actions, m_recording, m_playing, m_stopPlayback,
              m_useTimestamps, m_minimumDelay>>

\* another thread is inside playback, between its entry test and its return
PlaybackInProgress(t) ==
    \E u \in Players \ {t} :
        ppc[u] \in {"p_set", "p_rep", "p_act", "p_exec", "p_end"}

\* C19: playback called while a playback is in progress, or with an empty
\* action list, returns false from its first statement: it executes no action
\* and leaves the action list, the recording, playing and stop flags and the
\* settings as they are, up to and including its return.
C19_PlaybackRefused ==
    [][ \A t \in Players :
          /\ (ppc[t] = "p_check" /\ ppc'[t] # ppc[t]
               /\ (m_playing \/ PlaybackInProgress(t) \/ m_actions = <<>>))
             => /\ ppc'[t] = "p_ret"
                /\ pret'[t] = FALSE
                /\ executed'[t] = <<>>
                /\ UNCHANGED recState
          /\ (ppc[t] = "p_ret" /\ ~pret[t] /\ ppc'[t] # ppc[t])
             => /\ ppc'[t] = "idle"
                /\ executed[t] = <<>>
                /\ UNCHANGED recState ]_vars

Executions(log) == SelectSeq(log, LAMBDA e : e.kind = "exec")
Repeated(list, n) ==
    [k \in 1..(n * Len(list)) |->
       [kind |-> "exec", i |-> ((k - 1) % Len(list)) + 1,
        action |-> list[((k - 1) % Len(list)) + 1], ms |-> 0]]

\* C20: a playback(device, n) that started (list not empty, no playback in
\* progress), during which stopPlayback was not called and the list was not
\* changed, has executed, when it returns, the actions 1..L of the list in
\* order, n times over, and nothing else; it clears the playing flag and
\* returns true.
C20_PlaybackExecutesAll ==
    /\ [](\A t \in Players :
             (ppc[t] = "p_ret" /\ pret[t] /\ ~stopReq[t] /\ ~mutated[t])
             => Executions(executed[t]) = Repeated(m_actions, repeatCount[t]))
    /\ [][ \A t \in Players :
              (ppc[t] = "p_end" /\ ppc'[t] # ppc[t])
              => (ppc'[t] = "p_ret" /\ ~m_playing' /\ pret'[t]) ]_vars

\* two different actions were played twice by a synchronous playback
C20_Witness ==
    /\ ppc[Caller] = "p_ret"
    /\ pret[Caller]
    /\ repeatCount[Caller] = 2
    /\ Len(m_actions) = 2
    /\ m_actions[1].type # m_actions[2].type
    /\ Len(executed[Caller]) = 4
    /\ ~m_playing

Timestamps(list) == [i \in 1..Len(list) |-> list[i].timestamp]
Sleeps(log) == SelectSeq(log, LAMBDA e : e.kind = "sleep")
\* the timestamp of the action before position i of the list, 0 at the start
TimestampBefore(i) == IF i = 1 THEN 0 ELSE m_actions[i - 1].timestamp

\* C21: before executing an action playback sleeps for gap = the action's
\* timestamp minus the previous action's timestamp (0 at the start of every
\* repetition) if and only if timestamp mode is on, gap > 0 and gap >= the
\* minimum delay, and otherwise does not sleep; with timestamps [0, 200, 250]
\* and threshold 100 a repetition sleeps once, 200 before action 2.
C21_PacingRule ==
    /\ [](\A t \in Players :
            (/\ Timestamps(m_actions) = <<0, 200, 250>>
             /\ m_minimumDelay = 100 /\ m_useTimestamps
             /\ ppc[t] = "p_rep" /\ rep[t] = 1 /\ ~mutated[t])
            => LET s == Sleeps(executed[t]) IN
               Len(s) = 1 /\ s[1].i = 2 /\ s[1].ms = 200)
    /\ [][\A t \in Players :
            (ppc[t] = "p_act" /\ ppc'[t] = "p_exec" /\ ~mutated[t])
            => LET gap == m_actions[idx[t]].timestamp - TimestampBefore(idx[t])
                   n == Len(executed'[t])
                   slept == n = Len(executed[t]) + 1
               IN  /\ slept <=> (m_useTimestamps /\ gap > 0
                                 /\ gap >= m_minimumDelay)
                   /\ ~slept => executed'[t] = executed[t]
                   /\ slept => /\ executed'[t][n].kind = "sleep"
                               /\ executed'[t][n].i = idx[t]
                               /\ executed'[t][n].ms = gap]_vars

C21_Witness ==
    /\ Timestamps(m_actions) = <<0, 200, 250>>
    /\ m_minimumDelay = 100 /\ m_useTimestamps
    /\ ppc[Caller] = "p_rep" /\ rep[Caller] = 1
    /\ Len(Sleeps(executed[Caller])) = 1
    /\ Len(Executions(executed[Caller])) = 3


\* C22: no action executes after stopPlayback returns: it returns only when
\* the worker started by playbackAsync has ended and been joined, and a worker
\* running inside playback always belongs to a thread not yet joined.
C22_NoActionAfterStop ==
    /\ [](InPlayback(Worker) => worker = "running")
    /\ [][(ppc[Caller] = "sp_join" /\ ppc'[Caller] = "idle")
          => (worker' = "none" /\ ~InPlayback(Worker)')]_vars

\* stopPlayback has set the flag and waits in join() while the worker, past
\* its flag test, is about to execute an action
C22_Witness ==
    /\ ppc[Caller] = "sp_join"
    /\ stopReq[Worker]
    /\ worker = "running"
    /\ ppc[Worker] = "p_exec"

\* C23: once stopPlayback has set the stop flag, the worker started by
\* playbackAsync starts at most one further action, also when the flag is set
\* before the worker has begun its first action.
C23_StopWithinOneAction == afterStop[Worker] <= 1


\* C24: playback and recording exclude each other: in no reachable state is
\* the recorder recording while a playback is in progress.
C24_RecordingExcludesPlayback ==
    ~(m_recording /\ \E t \in Players :
                       ppc[t] \in {"p_set", "p_rep", "p_act", "p_exec", "p_end"})

NonDecreasing(seq) == \A i \in 1..(Len(seq) - 1) : seq[i] <= seq[i + 1]

\* C25: the timestamps of the action list are non-decreasing in list order
\* after any sequence of startRecording, stopRecording, add*, on* and clear.
C25_TimestampsNonDecreasing == NonDecreasing(Timestamps(m_actions))


\* C26: while a playback is in progress (the playing flag is set and a thread
\* is inside the playback loop) no step changes the action list.
C26_ListFrozenWhilePlaying ==
    [][(m_playing /\ \E t \in Players :
                       ppc[t] \in {"p_rep", "p_act", "p_exec", "p_end"})
       => m_actions' = m_actions]_vars


\* C27: saveToFile, loadFromFile of that file and saveToFile again, with
\* nothing in between, leave a file identical to the first one.
C27_SaveLoadSaveRoundTrip == trip.stage = 3 => file = trip.first

LoadStep == recRes'.call # recRes.call /\ recRes'.op = "loadFromFile"

\* C28: loadFromFile on a file that cannot be opened, or whose first line is
\* not the version tag, returns false and leaves the action list as it was.
C28_LoadRejectsBadHeader ==
    [][(LoadStep /\ (~file.exists \/ ~HeaderOk(file)))
       => (~recRes'.ok /\ m_actions' = m_actions)]_vars

\* a list of two actions survived a refused load of a file with a foreign tag
C28_Witness ==
    /\ recRes.op = "loadFromFile" /\ ~recRes.ok
    /\ file.exists /\ Len(file.lines) >= 1 /\ ~HeaderOk(file)
    /\ Len(m_actions) = 2

\* C29: loadFromFile on a file with the version tag but with a count that is
\* no number, or with fewer action lines than the count declares, returns
\* false and leaves the action list as it was.
C29_LoadRejectsBadCount ==
    [][(LoadStep /\ file.exists /\ HeaderOk(file)
        /\ (\/ Len(file.lines) < 2
            \/ Len(file.lines[2].nums) # 1
            \/ Len(ActionLines(file)) < ParseCount(file)))
       => (~recRes'.ok /\ m_actions' = m_actions)]_vars


RecStep(name) == recRes'.call # recRes.call /\ recRes'.op = name
AppendsOne == Len(m_actions') = Len(m_actions) + 1
                /\ SubSeq(m_actions', 1, Len(m_actions)) = m_actions
                /\ m_actions'[Len(m_actions')].timestamp = elapsed

\* C30: the pointer-move flag starts false; startRecording when not recording
\* empties the list, sets the recording flag and returns true; while recording
\* each onKeyboard, onMouseButton and onMouseWheel appends exactly one action
\* stamped with the elapsed time, and onMouseMove appends one only if the
\* pointer-move flag is set; while not recording no on* changes the list;
\* startRecording while recording and stopRecording while not recording
\* return false and change neither the list nor the flag.
C30_CaptureGatedByRecording ==
    /\ ~m_recordMouseMovement
    /\ [][/\ RecStep("startRecording")
             => IF m_recording
                THEN ~recRes'.ok /\ UNCHANGED <<m_actions, m_recording>>
                ELSE recRes'.ok /\ m_actions' = <<>> /\ m_recording'
          /\ RecStep("stopRecording")
             => IF m_recording
                THEN recRes'.ok /\ ~m_recording' /\ UNCHANGED m_actions
                ELSE ~recRes'.ok /\ UNCHANGED <<m_actions, m_recording>>
          /\ (\E name \in {"onKeyboard", "onMouseButton", "onMouseWheel"} :
                RecStep(name))
             => IF m_recording THEN AppendsOne ELSE UNCHANGED m_actions
          /\ RecStep("onMouseMove")
             => IF m_recording /\ m_recordMouseMovement
                THEN AppendsOne /\ m_actions'[Len(m_actions')].type = "MOUSE_MOVE"
                ELSE UNCHANGED m_actions
          /\ (\E name \in {"onKeyboard", "onMouseButton", "onMouseWheel",
                           "onMouseMove"} : RecStep(name))
             => UNCHANGED m_recording]_vars

\* a recording holds a key event, then, 200 ms later, a pointer move that was
\* captured because the pointer-move flag is set
C30_Witness ==
    /\ m_recording /\ m_recordMouseMovement
    /\ recRes.op = "onMouseMove"
    /\ Len(m_actions) = 2
    /\ m_actions[1] = [type |-> "KEY_DOWN", timestamp |-> 0]
    /\ m_actions[2] = [type |-> "MOUSE_MOVE", timestamp |-> 200]


\* a step that changes the list without any start, stop or on* call is a call
\* of add* or clear
AuthoringStep == recRes' = recRes /\ elapsed' = elapsed
                   /\ m_recordMouseMovement' = m_recordMouseMovement

C32_ClearGatedByFlags ==
    [][/\ Clear => IF m_recording \/ m_playing
                   THEN UNCHANGED m_actions
                   ELSE m_actions' = <<>>
       /\ (AuthoringStep /\ m_actions # <<>> /\ m_actions' = <<>>)
          => (Clear /\ ~m_recording /\ ~m_playing)]_vars

\* the calling thread is free to call clear() while the worker plays a list of
\* two actions with the playing flag set: the call returns with the list kept
C32_Witness ==
    /\ CallerIdle
    /\ m_playing /\ ~m_recording
    /\ ppc[Worker] = "p_exec"
    /\ Len(m_actions) = 2
    /\ ENABLED Clear

\* C33: humanizeDelay(baseDelay, variance) returns r with
\* baseDelay - variance <= r <= baseDelay + variance, raised to 1 when it
\* would be below 1, also when baseDelay < variance.
Max(a, b) == IF a >= b THEN a ELSE b

C33_HumanizeWithinVariance ==
    hres.call = 1 =>
        /\ U32Leq(ToUint32(Max(1, hres.baseDelay - hres.variance)), hres.result)
        /\ U32Leq(hres.result, ToUint32(Max(1, hres.baseDelay + hres.variance)))

\* C34: status changes only along the edges DISCONNECTED or CONNECTION_ERROR
\* to CONNECTING, CONNECTING to CONNECTED, CONNECTING to CONNECTION_ERROR,
\* DISCONNECTED to CONNECTION_ERROR (connect finds no port) and CONNECTED to
\* DISCONNECTED (disconnect); CONNECTED is left only by disconnect; CONNECTING
\* is the status only while a connect is running; a connect that follows a
\* failed connect and returns true has run the whole handshake.
StatusEdges ==
    { <<"DISCONNECTED", "CONNECTING">>, <<"CONNECTION_ERROR", "CONNECTING">>,
      <<"CONNECTING", "CONNECTED">>, <<"CONNECTING", "CONNECTION_ERROR">>,
      <<"DISCONNECTED", "CONNECTION_ERROR">>, <<"CONNECTED", "DISCONNECTED">> }
ConnectingPcs == BeforeConnectedPcs \cup {"c_setstatus"}

C34_StatusEdges ==
    /\ status = "DISCONNECTED"
    /\ [][ status' # status
           => /\ <<status, status'>> \in StatusEdges
              /\ status = "CONNECTED"
                 => \E t \in Threads : pc[t] = "d_setstatus"
              /\ <<status, status'>> = <<"DISCONNECTED", "CONNECTION_ERROR">>
                 => \E t \in Threads :
                      /\ pc[t] = "c_resolve"
                      /\ target'[t] = NoPort
                      /\ oplog'[t] = <<>> ]_vars
    /\ [](status = "CONNECTING" => \E t \in Threads : pc[t] \in ConnectingPcs)
    /\ [](\A t \in Threads :
            (pc[t] = "c_ret" /\ ret[t] /\ lastDone = "connect_fail")
            => /\ target[t] \in Ports
               /\ oplog[t] = SuccessfulConnectOps(target[t]))

\* a connect that follows a failed connect returns true
C34_Witness ==
    \E t \in Threads :
        /\ pc[t] = "c_ret"
        /\ ret[t]
        /\ lastDone = "connect_fail"
        /\ status = "CONNECTED"

\* C35: a thread inside the body of connect or disconnect holds the Session
\* mutex, so no two bodies run at once; status is written only by the holder
\* of the mutex; a connect that gets the mutex after another connect returned
\* true returns true without any Channel operation.
InBody(t) == pc[t] \notin {"idle", "c_lock", "d_lock"}

C35_BodiesExclusive ==
    /\ [](\A t \in Threads : InBody(t) => mutex = t)
    /\ [](\A t, u \in Threads : (InBody(t) /\ InBody(u)) => t = u)
    /\ [][ status' # status
           => /\ mutex \in Threads
              /\ mutex' = mutex
              /\ pc'[mutex] # pc[mutex]
              /\ \A u \in Threads \ {mutex} : pc'[u] = pc[u] ]_vars
    /\ [](\A t \in Threads :
            (InBody(t) /\ pc[t] \notin {"c_check"} /\ pc[t] \notin DisconnectPcs
             /\ lastDone = "connect_ok")
            => /\ pc[t] = "c_ret"
               /\ ret[t]
               /\ oplog[t] = <<>>)

\* a connect has run the handshake and is about to return true while a
\* second connect waits for the Session mutex
C35_Witness ==
    \E t, u \in Threads :
        /\ pc[t] = "c_ret"
        /\ ret[t]
        /\ oplog[t] = SuccessfulConnectOps(target[t])
        /\ pc[u] = "c_lock"

\* C36: a disconnect called by the button handler, on the polling thread,
\* returns, and when it ends status is DISCONNECTED, the Channel is closed and
\* the Session mutex is free.
C36_DisconnectFromCallback ==
    [][ (cbCall = "running" /\ cbCall' # "running")
        => /\ cbCall' = "returned"
           /\ status' = "DISCONNECTED"
           /\ ~serial'.isOpen
           /\ mutex' = NoThread ]_vars

\* C37: while connected, no byte the device sent in reply to a query is taken
\* by the polling loop as a status byte.
C37_RepliesReachQuery == stolen = 0

\* C38: SerialPort::open called on an open port closes the handle it holds,
\* opens the requested port and returns; it does not wait for ever for the
\* lock it already holds.
C38_ReopenClosesFirst ==
    /\ chanRes.op \notin {"open_stuck", "open_threw"}
    /\ chanLock # Harness
    /\ serial.handles <= 1

\* C39: at most one thread is inside the playback loop at any time, and
\* while a worker is unjoined (running, or finished and not yet joined) no
\* playbackAsync starts a worker over it.
InLoop(t) == ppc[t] \in {"p_set", "p_rep", "p_act", "p_exec", "p_end"}

C39_OnePlaybackLoop ==
    /\ [](~(InLoop(Caller) /\ InLoop(Worker)))
    /\ [][ (worker # "none" /\ ~aborted)
           => /\ (ppc'[Worker] = "p_check" => ppc[Worker] = "p_check")
              /\ (aborted' => \E t \in Players : mutated[t]) ]_vars

\* C40: a playback that has passed its entry test returns true, whatever the
\* executed actions returned and whether or not stopPlayback cut it short;
\* after an action has been executed, failed or not, the loop goes on to the
\* next position of the list.
Failed(log) == SelectSeq(log, LAMBDA e : e.kind = "exec" /\ ~ExecuteResult(e.action))

C40_ResultIgnoresOutcomes ==
    [][ \A t \in Players :
          /\ (InLoop(t) /\ ppc'[t] \notin {ppc[t], "p_ret"}) => InLoop(t)'
          /\ (InLoop(t) /\ ppc'[t] = "p_ret") => pret'[t]
          /\ (ppc[t] = "p_exec" /\ ppc'[t] # ppc[t])
             => /\ ppc'[t] = "p_act"
                /\ idx'[t] = idx[t] + 1
                /\ Len(Executions(executed'[t])) >= Len(Executions(executed[t])) ]_vars

\* a playback returns true after an action failed on the disconnected Device
\* and the actions after it were executed
C40_Witness ==
    \E t \in Players :
        /\ ppc[t] = "p_ret"
        /\ pret[t]
        /\ ~stopReq[t]
        /\ Len(Executions(executed[t])) = 2
        /\ Len(Failed(executed[t])) >= 1
        /\ ~ExecuteResult(executed[t][1].action)

====
